---- MODULE Spec2Model ----
(***************************************************************************)
(* Dispatch engine of the Linear plugin: the file-backed dispatch store    *)
(* (dispatch-state.ts), its lock file protocol, the inactivity watchdog    *)
(* (watchdog.ts), the agent_end hook (index.ts) and the worker / audit /   *)
(* verdict pipeline.                                                       *)
(***************************************************************************)
EXTENDS Integers, Sequences, FiniteSets, TLC

None == "none"

\* ------------------------------------------------------------------------
\* Bounds of the model
\* ------------------------------------------------------------------------

\* Largest value of the store's clock (Date.now()) in Spec.
MaxNow == 1
\* Largest attempt number a caller passes in a transition patch.
MaxAttempt == 1

\* Largest value of the clock in SpecLock, in ms.
MaxLockClock == 40200

\* ------------------------------------------------------------------------
\* File locking constants (dispatch-state.ts)
\* ------------------------------------------------------------------------

LOCK_STALE_MS == 30000
LOCK_RETRY_MS == 50
LOCK_TIMEOUT_MS == 10000

\* watchdog.ts
DEFAULT_INACTIVITY_SEC == 120

\* scheduleCheck never waits less than this
MIN_CHECK_MS == 1000

\* SpecWatchdog: the clock stops here
MaxWdClock == 4100

\* agent.ts, runAgent
maxAttempts == 2

\* processedEvents keeps this many keys
MAX_PROCESSED_EVENTS == 200

\* staleMaxAgeMs: 2 h
STALE_MAX_AGE_MS == 7200000

\* retention of completed records: 7 days
COMPLETED_MAX_AGE_MS == 604800000

\* SpecDedup: event keys never passed before are 1..MaxKeys
MaxKeys == 203

\* SpecPipeline: maxReworkAttempts is configured in 0..MaxRework
MaxRework == 1

\* The processes that run store operations concurrently, and the identifier
\* each one registers.
Procs == {"p1", "p2"}

ProcId == [p \in Procs |-> IF p = "p1" THEN "A" ELSE "B"]

\* ------------------------------------------------------------------------
\* Types (dispatch-state.ts)
\* ------------------------------------------------------------------------

Ids == {"A", "B"}

Statuses == {"dispatched", "working", "auditing", "done", "failed", "stuck"}

CompletedStatuses == {"done", "failed"}

\* SessionMapping keys: linear-<phase>-<identifier>-<attempt>
SessionKey(phase, id, attempt) == <<phase, id, attempt>>

\* Mutant: the state machine with stuck -> stuck legal
ValidTransitions_StuckAgain ==
    { <<"dispatched", "working">>,
      <<"working", "auditing">>,
      <<"auditing", "done">>,
      <<"auditing", "working">>,
      <<"dispatched", "stuck">>,
      <<"working", "stuck">>,
      <<"auditing", "stuck">>,
      <<"stuck", "stuck">> }

\* The state machine of section 4.2: the legal (from, to) pairs.
ValidTransitions ==
    { <<"dispatched", "working">>,
      <<"working", "auditing">>,
      <<"auditing", "done">>,
      <<"auditing", "working">>,
      <<"dispatched", "stuck">>,
      <<"working", "stuck">>,
      <<"auditing", "stuck">> }

\* ------------------------------------------------------------------------
\* Helpers on JSON objects (partial functions)
\* ------------------------------------------------------------------------

Put(f, k, v) == [x \in DOMAIN f \cup {k} |-> IF x = k THEN v ELSE f[x]]

Del(f, k) == [x \in DOMAIN f \ {k} |-> f[x]]

EmptyObj == [x \in {} |-> None]

\* A counter per key
Count(f, k) == IF k \in DOMAIN f THEN f[k] ELSE 0

Bump(f, k) == Put(f, k, Count(f, k) + 1)

\* A file that does not exist (ENOENT); an existing file is <<content>>.
Absent == <<>>

\* emptyState(): no dispatches; the v2 document also holds sessionMap and
\* processedEvents, which JSON.parse / JSON.stringify carry through.
emptyState ==
    [active |-> EmptyObj, completed |-> EmptyObj,
     sessionMap |-> EmptyObj, processedEvents |-> <<>>]

\* ------------------------------------------------------------------------
\* Store operations as document transformers (the body between
\* readDispatchState and writeDispatchState of each operation)
\* ------------------------------------------------------------------------

\* data.dispatches.active[issueIdentifier] = dispatch
registerDispatch(data, id, dispatch) ==
    [data EXCEPT !.active = Put(@, id, dispatch)]

\* delete active[id]; completed[id] = {tier: active?.tier ?? result.tier, ...}
completeDispatch(data, id, result) ==
    LET wasActive == id \in DOMAIN data.active
        rec == [issueIdentifier |-> id,
                tier |-> IF wasActive THEN data.active[id].tier ELSE result.tier,
                status |-> result.status,
                completedAt |-> result.completedAt]
    IN [data EXCEPT !.active = Del(@, id),
                    !.completed = Put(@, id, rec)]

\* if (dispatch) dispatch.status = status
updateDispatchStatus(data, id, status) ==
    IF id \in DOMAIN data.active
    THEN [data EXCEPT !.active[id].status = status]
    ELSE data

\* Pruning at the threshold as well
PrunedKeys_Inclusive(data, maxAgeMs, t) ==
    {k \in DOMAIN data.completed : t - data.completed[k].completedAt >= maxAgeMs}

\* The keys pruneCompleted deletes: age = now - completedAt > maxAgeMs
PrunedKeys(data, maxAgeMs, t) ==
    {k \in DOMAIN data.completed : t - data.completed[k].completedAt > maxAgeMs}

pruneCompleted(data, maxAgeMs, t) ==
    [data EXCEPT !.completed =
        [k \in DOMAIN @ \ PrunedKeys(data, maxAgeMs, t) |-> @[k]]]

\* delete data.dispatches.active[issueIdentifier]
removeActiveDispatch(data, id) ==
    [data EXCEPT !.active = Del(@, id)]

\* sessionMap[sessionKey] = mapping
registerSessionMapping(data, sessionKey, mapping) ==
    [data EXCEPT !.sessionMap = Put(@, sessionKey, mapping)]

\* A transition patch overwrites the fields it names.
ApplyPatch(d, patch) ==
    [f \in DOMAIN d |-> IF f \in DOMAIN patch THEN patch[f] ELSE d[f]]

\* The error of transition(identifier, expectedFrom, to), None when it succeeds.
TransitionFailure(data, id, from, to) ==
    IF id \notin DOMAIN data.active THEN "TransitionError"
    ELSE IF data.active[id].status # from THEN "TransitionError"
    ELSE IF <<from, to>> \notin ValidTransitions THEN "TransitionError"
    ELSE None

\* Mutant: the patch is written before the CAS is decided.
transitionDispatch_PatchFirst(data, id, from, to, patch) ==
    IF id \notin DOMAIN data.active
    THEN data
    ELSE IF TransitionFailure(data, id, from, to) # None
    THEN [data EXCEPT !.active[id] = ApplyPatch(@, patch)]
    ELSE [data EXCEPT !.active[id] =
            ApplyPatch([@ EXCEPT !.status = to], patch)]

\* transition(identifier, expectedFrom, to, patch): CAS on the status.
transitionDispatch(data, id, from, to, patch) ==
    IF TransitionFailure(data, id, from, to) # None
    THEN data
    ELSE [data EXCEPT !.active[id] =
            ApplyPatch([@ EXCEPT !.status = to], patch)]

Range(s) == {s[i] : i \in 1..Len(s)}

\* The FIFO cut one entry short of its capacity
TrimEvents_OneShort(events) ==
    IF Len(events) >= MAX_PROCESSED_EVENTS
    THEN SubSeq(events, Len(events) - MAX_PROCESSED_EVENTS + 2, Len(events))
    ELSE events

\* The FIFO dropping what was appended last
TrimEvents_DropNewest(events) ==
    IF Len(events) > MAX_PROCESSED_EVENTS
    THEN SubSeq(events, 1, MAX_PROCESSED_EVENTS)
    ELSE events

\* Evict the oldest while the FIFO holds more than MAX_PROCESSED_EVENTS keys.
TrimEvents(events) ==
    IF Len(events) > MAX_PROCESSED_EVENTS
    THEN SubSeq(events, Len(events) - MAX_PROCESSED_EVENTS + 1, Len(events))
    ELSE events

\* The event key the claims follow
TrackedKey == 0

\* markEventProcessed reporting every key as new
wasNew_Always(data, eventKey) == TRUE

\* markEventProcessed: what it returns
wasNew(data, eventKey) == eventKey \notin Range(data.processedEvents)

\* markEventProcessed: the document it leaves
markEventProcessed(data, eventKey) ==
    IF wasNew(data, eventKey)
    THEN [data EXCEPT !.processedEvents = TrimEvents(Append(@, eventKey))]
    ELSE data

\* ------------------------------------------------------------------------
\* State
\* ------------------------------------------------------------------------

VARIABLES
    stateFile,   \* the persisted DispatchState document
    now,         \* Date.now()
    lastOp,      \* the last store operation called: its name and what it returned or threw
    lastCall,    \* SpecCAS: the arguments of the last transition call
    lockFile,    \* <statePath>.lock: <<timestamp>>, Absent when there is none
    lockOwner,   \* history: the process whose writeFile(wx) created the lock file
    tmpFile,     \* <statePath>.tmp: <<document>>, Absent when there is none
    pc,          \* SpecLock: where each process is in its store operation
    deadline,    \* acquireLock: deadline of each process
    wakeAt,      \* acquireLock: when the retry sleep of each process ends
    localData,   \* the document each process read and mutated in memory
    opResult,    \* how the store operation of each process ended
    inactivityMs,    \* InactivityWatchdog: the threshold given to the constructor
    timer,           \* InactivityWatchdog.timer: <<due>> of the handle, Absent when null
    pending,         \* the due times of the timeouts set and neither fired nor cleared
    lastActivityAt,  \* InactivityWatchdog.lastActivityAt
    killed,          \* InactivityWatchdog.killed (wasKilled)
    started,         \* InactivityWatchdog.started
    killCount,       \* how many times onKill has been invoked
    threw,           \* whether an onKill invocation threw or rejected
    prevActivityAt,  \* lastActivityAt before the last tick()
    ticksInTime,     \* no silence of inactivityMs or more since the last effective start()
    wdStop,          \* whether stop() was the last of start()/stop(), and the due time it cleared
    wdLast,          \* the last watchdog step
    nextKey,         \* SpecDedup: the next event key never passed before
    trueCount,       \* SpecDedup: how many markEventProcessed(TrackedKey) returned true
    sinceTrue,       \* SpecDedup: other keys recorded since the last such true, -1 before it
    dedupLast,       \* SpecDedup: the last markEventProcessed call and its result
    maxReworkAttempts,  \* pipeline configuration
    runs,            \* agent sessions running: [key, phase, attempt]
    events,          \* ended sessions whose completion is still to be (or may again be) delivered
    reworks,         \* how many auditing -> working transitions were taken
    failVerdicts,    \* how many fail verdicts Process Verdict acted on
    bodyCount,       \* how often the body of Trigger Audit / Process Verdict ran, per <<kind, id, attempt>>
    escalations,     \* escalation comments and notifications sent, per <<"comment" or "notify", id>>
    pipeLast,        \* the last pipeline step
    raStreaming,     \* runAgent: whether params.streaming is given
    raAttempt,       \* runAgent: the loop variable attempt
    raRuns,          \* runAgent: the results of the runAgentOnce calls made, in order
    raReturned,      \* runAgent: <<result>> once it has returned, Absent before
    raActivities,    \* runAgent: how many retry activities were emitted
    rePc,            \* SpecRetry: where runAgentOnce stands: idle, embedded, subprocess, returned
    stepPc,          \* SpecSteps: where the pipeline of each dispatch stands
    monPc,           \* monitor: the duty the current tick is at, "idle" between ticks
    monSnap,         \* monitor: the document the current tick read
    monTodo,         \* monitor: the dispatches the current duty has still to handle
    notified,        \* how many stuck notifications were sent, per dispatch
    monLast,         \* the last monitor step
    fileKind,        \* what the state file holds: "document", "missing", "corrupt", "misshapen"
    curOp,           \* SpecFaults: the store operation in progress and its arguments
    fileBefore,      \* SpecFaults: the state file when the operation in progress was called
    notifyLast,      \* SpecNotify: the last notify call and how it ended
    sessions,        \* active-session.ts: the in-memory Map, issueId -> ActiveSession
    restored         \* what hydrateFromDispatchState returned: <<n>>, Absent before the call

storeVars == <<lastOp, lastCall>>

lockVars == <<lockFile, lockOwner, tmpFile, pc, deadline, wakeAt, localData, opResult>>

wdVars == <<inactivityMs, timer, pending, lastActivityAt, killed, started,
            killCount, threw, prevActivityAt, ticksInTime, wdStop, wdLast>>

dedupVars == <<nextKey, trueCount, sinceTrue, dedupLast>>

pipeVars == <<maxReworkAttempts, runs, events, reworks, failVerdicts, bodyCount, escalations, pipeLast>>

raVars == <<raStreaming, raAttempt, raRuns, raReturned, raActivities, rePc>>

\* The components added after the store, the lock, the watchdog, the event
\* FIFO and the pipeline
monVars == <<monPc, monSnap, monTodo, notified, monLast>>

faultVars == <<fileKind, curOp, fileBefore>>

hyVars == <<sessions, restored>>

restVars == <<raVars, stepPc, monVars, faultVars, notifyLast, hyVars>>

vars == <<stateFile, now, storeVars, lockVars, wdVars, dedupVars, pipeVars, restVars>>

\* What the actions of one component leave alone.
NotStore == <<lockVars, wdVars, dedupVars, pipeVars, restVars>>

NotLock == <<storeVars, wdVars, dedupVars, pipeVars, restVars>>

NotWd == <<stateFile, storeVars, lockVars, dedupVars, pipeVars, restVars>>

NotDedup == <<now, storeVars, lockVars, wdVars, pipeVars, restVars>>

NotPipe == <<now, storeVars, lockVars, wdVars, dedupVars, restVars>>

NotRunAgent == <<stateFile, now, storeVars, lockVars, wdVars, dedupVars, pipeVars, stepPc, monVars, faultVars,
                 notifyLast, hyVars>>

NotSteps == <<now, storeVars, lockVars, wdVars, dedupVars, pipeVars, raVars, monVars, faultVars,
              notifyLast, hyVars>>

NotMonitor == <<storeVars, lockVars, wdVars, dedupVars, pipeVars, raVars, faultVars, notifyLast, hyVars>>

NotFaults == <<now, storeVars, wdVars, dedupVars, pipeVars, raVars, stepPc, monVars, notifyLast, hyVars>>

NotNotify == <<now, storeVars, lockVars, wdVars, dedupVars, pipeVars, raVars, monVars, faultVars,
               hyVars>>

NotHydrate == <<stateFile, now, storeVars, lockVars, wdVars, dedupVars, pipeVars, raVars, stepPc,
                monVars, faultVars, notifyLast>>

\* What a process holds in memory before it has read the state file
NoData == [shape |-> "none"]

\* The lock protocol at rest: no lock file, no process in a store operation.
LockIdle ==
    /\ lockFile = Absent
    /\ lockOwner = None
    /\ tmpFile = Absent
    /\ pc = [p \in Procs |-> "idle"]
    /\ deadline = [p \in Procs |-> 0]
    /\ wakeAt = [p \in Procs |-> 0]
    /\ localData = [p \in Procs |-> NoData]
    /\ opResult = [p \in Procs |-> None]

\* A watchdog just constructed (lastActivityAt = Date.now(), killed = false,
\* started = false, timer = null) with threshold ms.
WdConstructed(ms) ==
    /\ inactivityMs = ms
    /\ timer = Absent
    /\ pending = {}
    /\ lastActivityAt = now
    /\ killed = FALSE
    /\ started = FALSE
    /\ killCount = 0
    /\ threw = FALSE
    /\ prevActivityAt = now
    /\ ticksInTime = TRUE
    /\ wdStop = [stopped |-> FALSE, cleared |-> Absent]
    /\ wdLast = [op |-> "new", kill |-> FALSE]

\* No markEventProcessed call yet.
DedupIdle ==
    /\ nextKey = 1
    /\ trueCount = 0
    /\ sinceTrue = -1
    /\ dedupLast = [key |-> -1, ret |-> FALSE]

\* No pipeline started, configured with maxReworkAttempts = max.
PipeIdle(max) ==
    /\ maxReworkAttempts = max
    /\ runs = {}
    /\ events = {}
    /\ reworks = 0
    /\ failVerdicts = 0
    /\ bodyCount = EmptyObj
    /\ escalations = EmptyObj
    /\ pipeLast = [op |-> "init"]

\* runAgent not called yet, to be called with or without streaming callbacks.
RunAgentIdle(streaming) ==
    /\ raStreaming = streaming
    /\ raAttempt = 0
    /\ raRuns = <<>>
    /\ raReturned = Absent
    /\ raActivities = 0
    /\ rePc = "idle"

StepIds == {"A", "B"}

\* No stepwise pipeline started.
StepsIdle == stepPc = [id \in StepIds |-> "start"]

\* The monitor between ticks, no notification sent.
MonIdle ==
    /\ monPc = "idle"
    /\ monSnap = emptyState
    /\ monTodo = {}
    /\ notified = [id \in StepIds |-> 0]
    /\ monLast = [op |-> "init"]

\* The state file holds a well-formed document and no operation of
\* SpecFaults is in progress.
FaultsIdle ==
    /\ fileKind = "document"
    /\ curOp = [op |-> "none"]
    /\ fileBefore = [kind |-> "document", doc |-> emptyState]

\* No notify call yet.
NotifyIdle == notifyLast = [op |-> "none"]

\* The gateway has just started: no session in memory, no hydration yet.
HydrateIdle == sessions = EmptyObj /\ restored = Absent

\* The later components at rest.
RestIdle == RunAgentIdle(FALSE) /\ StepsIdle /\ MonIdle /\ FaultsIdle /\ NotifyIdle /\ HydrateIdle

\* Everything but the store at rest.
OthersIdle ==
    /\ LockIdle
    /\ WdConstructed(DEFAULT_INACTIVITY_SEC * 1000)
    /\ DedupIdle
    /\ PipeIdle(0)
    /\ RestIdle

\* ------------------------------------------------------------------------
\* Inputs
\* ------------------------------------------------------------------------

\* The ActiveDispatch a caller registers (webhook: status dispatched, attempt 0).
NewDispatch(id, t) ==
    [issueIdentifier |-> id, tier |-> "junior", status |-> "dispatched",
     attempt |-> 0, dispatchedAt |-> t, stuckReason |-> None,
     workerSessionKey |-> Absent, auditSessionKey |-> Absent]

\* The patches callers pass to transition.
PatchInputs(id) ==
    {EmptyObj}
    \cup {[attempt |-> a, auditSessionKey |-> Absent] : a \in 1..MaxAttempt}
    \cup {[stuckReason |-> "worker_failed"]}
    \cup {[workerSessionKey |-> SessionKey("worker", id, 0)]}
    \cup {[auditSessionKey |-> SessionKey("audit", id, 0)]}

\* ------------------------------------------------------------------------
\* The store operations, each one locked read-modify-write
\* ------------------------------------------------------------------------

AdvanceClock ==
    /\ now < MaxNow
    /\ now' = now + 1
    /\ lastOp' = [op |-> "clock"]
    /\ UNCHANGED <<stateFile, lastCall, NotStore>>

Register(id) ==
    /\ stateFile' = registerDispatch(stateFile, id, NewDispatch(id, now))
    /\ lastOp' = [op |-> "register", err |-> None]
    /\ UNCHANGED <<now, lastCall, NotStore>>

Transition(id, from, to, patch) ==
    /\ stateFile' = transitionDispatch(stateFile, id, from, to, patch)
    /\ lastOp' = [op |-> "transition",
                  err |-> TransitionFailure(stateFile, id, from, to)]
    /\ UNCHANGED <<now, NotStore>>

Complete(id, status) ==
    /\ stateFile' = completeDispatch(stateFile, id,
                        [tier |-> "senior", status |-> status, completedAt |-> now])
    /\ lastOp' = [op |-> "complete", err |-> None]
    /\ UNCHANGED <<now, lastCall, NotStore>>

UpdateStatus(id, status) ==
    /\ stateFile' = updateDispatchStatus(stateFile, id, status)
    /\ lastOp' = [op |-> "updateStatus", err |-> None]
    /\ UNCHANGED <<now, lastCall, NotStore>>

Prune(maxAgeMs) ==
    /\ stateFile' = pruneCompleted(stateFile, maxAgeMs, now)
    /\ lastOp' = [op |-> "prune", err |-> None, maxAgeMs |-> maxAgeMs,
                  ret |-> Cardinality(PrunedKeys(stateFile, maxAgeMs, now))]
    /\ UNCHANGED <<now, lastCall, NotStore>>

RemoveActive(id) ==
    /\ stateFile' = removeActiveDispatch(stateFile, id)
    /\ lastOp' = [op |-> "removeActive", err |-> None]
    /\ UNCHANGED <<now, lastCall, NotStore>>

\* ------------------------------------------------------------------------
\* Spec: any sequence of store operations on two identifiers
\* ------------------------------------------------------------------------

Init ==
    /\ stateFile = emptyState
    /\ now = 0
    /\ lastOp = [op |-> "init"]
    /\ lastCall = None
    /\ OthersIdle

Next ==
    \/ AdvanceClock
    \/ \E id \in Ids : Register(id)
    \/ \E id \in Ids, from \in Statuses, to \in Statuses :
          Transition(id, from, to, EmptyObj) /\ UNCHANGED lastCall
    \/ \E id \in Ids, status \in CompletedStatuses : Complete(id, status)
    \/ \E id \in Ids, status \in Statuses : UpdateStatus(id, status)
    \/ \E maxAgeMs \in {0} : Prune(maxAgeMs)
    \/ \E id \in Ids : RemoveActive(id)

Spec == Init /\ [][Next]_vars

\* ------------------------------------------------------------------------
\* SpecSessions: records registered with session mappings, then completed
\* or removed
\* ------------------------------------------------------------------------

SessionPhases == {"worker", "audit"}

\* registerSessionMapping(key, {dispatchId, phase, attempt: 0})
RegisterSession(id, phase) ==
    /\ stateFile' = registerSessionMapping(stateFile, SessionKey(phase, id, 0),
                        [dispatchId |-> id, phase |-> phase, attempt |-> 0])
    /\ lastOp' = [op |-> "registerSession", err |-> None]
    /\ UNCHANGED <<now, lastCall, NotStore>>

NextSessions ==
    \/ \E id \in Ids : Register(id)
    \/ \E id \in Ids, phase \in SessionPhases : RegisterSession(id, phase)
    \/ \E id \in Ids, status \in CompletedStatuses : Complete(id, status)
    \/ \E id \in Ids : RemoveActive(id)

SpecSessions == Init /\ [][NextSessions]_vars

\* ------------------------------------------------------------------------
\* SpecPrune: records registered, mapped to sessions and completed at
\* different instants, and pruneCompleted called with different thresholds
\* ------------------------------------------------------------------------

PruneAges == {0, 1}

NextPrune ==
    \/ AdvanceClock
    \/ \E id \in Ids : Register(id)
    \/ \E id \in Ids, phase \in SessionPhases : RegisterSession(id, phase)
    \/ \E id \in Ids, status \in CompletedStatuses : Complete(id, status)
    \/ \E maxAgeMs \in PruneAges : Prune(maxAgeMs)

SpecPrune == Init /\ [][NextPrune]_vars

\* ------------------------------------------------------------------------
\* SpecCAS: transition calls with every (expectedFrom, to, patch) on the
\* record of one identifier, beside the untouched record of another
\* ------------------------------------------------------------------------

InitCAS ==
    /\ stateFile = registerDispatch(emptyState, "B", NewDispatch("B", 0))
    /\ now = 0
    /\ lastOp = [op |-> "init"]
    /\ lastCall = None
    /\ OthersIdle

TransitionCall(id, from, to, patch) ==
    /\ Transition(id, from, to, patch)
    /\ lastCall' = [id |-> id, from |-> from, to |-> to, patch |-> patch]

NextCAS ==
    \/ Register("A")
    \/ \E from \in Statuses, to \in Statuses :
          \E patch \in PatchInputs("A") : TransitionCall("A", from, to, patch)
    \/ RemoveActive("A")

SpecCAS == InitCAS /\ [][NextCAS]_vars

\* ------------------------------------------------------------------------
\* SpecLock: processes running registerDispatch concurrently, every await of
\* acquireLock / readDispatchState / writeDispatchState / releaseLock a step
\* ------------------------------------------------------------------------

\* The pcs between a successful acquireLock and the end of releaseLock.
Holding == {"read", "writeTmp", "rename", "release"}

\* Mutant: the loop without its deadline
LoopTarget_NoDeadline(p, t) == "tryCreate"

\* while (Date.now() < deadline): back to the exclusive create, or out of the loop.
LoopTarget(p, t) == IF t < deadline[p] THEN "tryCreate" ELSE "forceUnlink"

\* The instants at which an operation is invoked: at the start, and just
\* after a lock file written at the start has become stale.
StartTimes == {0, LOCK_STALE_MS + 1}

\* No operation is running; the lock file of an earlier process that died
\* holding it may be there.
InitLock ==
    /\ stateFile = emptyState
    /\ now = 0
    /\ lastOp = [op |-> "init"]
    /\ lastCall = None
    /\ WdConstructed(DEFAULT_INACTIVITY_SEC * 1000)
    /\ DedupIdle
    /\ PipeIdle(0)
    /\ RestIdle
    /\ lockFile \in {Absent, <<0>>}
    /\ lockOwner = IF lockFile = Absent THEN None ELSE "dead"
    /\ tmpFile = Absent
    /\ pc = [p \in Procs |-> "idle"]
    /\ deadline = [p \in Procs |-> 0]
    /\ wakeAt = [p \in Procs |-> 0]
    /\ localData = [p \in Procs |-> NoData]
    /\ opResult = [p \in Procs |-> None]

\* registerDispatch is called: acquireLock computes its deadline and enters
\* the loop (Date.now() < deadline holds at once).
StartOp(p) ==
    /\ pc[p] = "idle"
    /\ now \in StartTimes
    /\ deadline' = [deadline EXCEPT ![p] = now + LOCK_TIMEOUT_MS]
    /\ pc' = [pc EXCEPT ![p] = "tryCreate"]
    /\ UNCHANGED <<stateFile, now, lockFile, lockOwner, tmpFile, wakeAt, localData, opResult, NotLock>>

\* fs.writeFile(lock, String(Date.now()), {flag: "wx"}) inside the loop
TryCreate(p) ==
    /\ pc[p] = "tryCreate"
    /\ IF lockFile = Absent
       THEN /\ lockFile' = <<now>>
            /\ lockOwner' = p
            /\ pc' = [pc EXCEPT ![p] = "read"]
       ELSE /\ pc' = [pc EXCEPT ![p] = "readLock"]
            /\ UNCHANGED <<lockFile, lockOwner>>
    /\ UNCHANGED <<stateFile, now, tmpFile, deadline, wakeAt, localData, opResult, NotLock>>

\* EEXIST: fs.readFile(lock) and the staleness test on its content
ReadLock(p) ==
    /\ pc[p] = "readLock"
    /\ IF lockFile # Absent /\ now - lockFile[1] > LOCK_STALE_MS
       THEN /\ pc' = [pc EXCEPT ![p] = "unlinkStale"]
            /\ UNCHANGED wakeAt
       ELSE /\ pc' = [pc EXCEPT ![p] = "sleep"]
            /\ wakeAt' = [wakeAt EXCEPT ![p] = now + LOCK_RETRY_MS]
    /\ UNCHANGED <<stateFile, now, lockFile, lockOwner, tmpFile, deadline, localData, opResult, NotLock>>

\* try { await fs.unlink(lock) } catch {}; continue
UnlinkStale(p) ==
    /\ pc[p] = "unlinkStale"
    /\ lockFile' = Absent
    /\ lockOwner' = None
    /\ pc' = [pc EXCEPT ![p] = LoopTarget(p, now)]
    /\ UNCHANGED <<stateFile, now, tmpFile, deadline, wakeAt, localData, opResult, NotLock>>

\* await new Promise(r => setTimeout(r, LOCK_RETRY_MS)) resolves
Wake(p) ==
    /\ pc[p] = "sleep"
    /\ now >= wakeAt[p]
    /\ pc' = [pc EXCEPT ![p] = LoopTarget(p, now)]
    /\ wakeAt' = [wakeAt EXCEPT ![p] = 0]
    /\ UNCHANGED <<stateFile, now, lockFile, lockOwner, tmpFile, deadline, localData, opResult, NotLock>>

\* Last resort: try { await fs.unlink(lockPath) } catch {}
ForceUnlink(p) ==
    /\ pc[p] = "forceUnlink"
    /\ lockFile' = Absent
    /\ lockOwner' = None
    /\ pc' = [pc EXCEPT ![p] = "forceCreate"]
    /\ UNCHANGED <<stateFile, now, tmpFile, deadline, wakeAt, localData, opResult, NotLock>>

\* await fs.writeFile(lock, ..., {flag: "wx"}) after the loop: EEXIST is thrown
\* to the caller, before its try block.
ForceCreate(p) ==
    /\ pc[p] = "forceCreate"
    /\ IF lockFile = Absent
       THEN /\ lockFile' = <<now>>
            /\ lockOwner' = p
            /\ pc' = [pc EXCEPT ![p] = "read"]
            /\ UNCHANGED opResult
       ELSE /\ pc' = [pc EXCEPT ![p] = "done"]
            /\ opResult' = [opResult EXCEPT ![p] = "EEXIST"]
            /\ UNCHANGED <<lockFile, lockOwner>>
    /\ UNCHANGED <<stateFile, now, tmpFile, deadline, wakeAt, localData, NotLock>>

\* const data = await readDispatchState(); data.dispatches.active[id] = dispatch
ReadAndMutate(p) ==
    /\ pc[p] = "read"
    /\ localData' = [localData EXCEPT ![p] =
            registerDispatch(stateFile, ProcId[p], NewDispatch(ProcId[p], 0))]
    /\ pc' = [pc EXCEPT ![p] = "writeTmp"]
    /\ UNCHANGED <<stateFile, now, lockFile, lockOwner, tmpFile, deadline, wakeAt, opResult, NotLock>>

\* await fs.writeFile(tmpPath, JSON.stringify(data))
WriteTmp(p) ==
    /\ pc[p] = "writeTmp"
    /\ tmpFile' = <<localData[p]>>
    /\ pc' = [pc EXCEPT ![p] = "rename"]
    /\ UNCHANGED <<stateFile, now, lockFile, lockOwner, deadline, wakeAt, localData, opResult, NotLock>>

\* await fs.rename(tmpPath, filePath): ENOENT when the tmp file is gone
Rename(p) ==
    /\ pc[p] = "rename"
    /\ IF tmpFile # Absent
       THEN /\ stateFile' = tmpFile[1]
            /\ tmpFile' = Absent
            /\ opResult' = [opResult EXCEPT ![p] = "ok"]
       ELSE /\ opResult' = [opResult EXCEPT ![p] = "ENOENT"]
            /\ UNCHANGED <<stateFile, tmpFile>>
    /\ pc' = [pc EXCEPT ![p] = "release"]
    /\ UNCHANGED <<now, lockFile, lockOwner, deadline, wakeAt, localData, NotLock>>

\* finally { await releaseLock(filePath) }: unlink, whatever the lock holds
releaseLock(p) ==
    /\ pc[p] = "release"
    /\ lockFile' = Absent
    /\ lockOwner' = None
    /\ pc' = [pc EXCEPT ![p] = "done"]
    /\ UNCHANGED <<stateFile, now, tmpFile, deadline, wakeAt, localData, opResult, NotLock>>

\* The process dies between acquireLock and releaseLock: its lock file stays.
Crash(p) ==
    /\ pc[p] \in Holding
    /\ pc' = [pc EXCEPT ![p] = "crashed"]
    /\ opResult' = [opResult EXCEPT ![p] = "crashed"]
    /\ UNCHANGED <<stateFile, now, lockFile, lockOwner, tmpFile, deadline, wakeAt, localData, NotLock>>

\* The instants at which a timer ends or a comparison with the clock changes.
EventTimes ==
    {wakeAt[p] : p \in {q \in Procs : pc[q] = "sleep"}}
    \cup {deadline[p] : p \in {q \in Procs : pc[q] \in {"tryCreate", "readLock", "unlinkStale", "sleep"}}}
    \cup (IF lockFile = Absent THEN {} ELSE {lockFile[1] + LOCK_STALE_MS + 1})

\* Time passes, up to one of the next instants that matter.
AdvanceLockClock ==
    /\ \E t \in EventTimes :
          /\ t > now
          /\ t <= MaxLockClock
          /\ now' = t
    /\ UNCHANGED <<stateFile, lockVars, NotLock>>

NextLock ==
    \/ AdvanceLockClock
    \/ \E p \in Procs :
          \/ StartOp(p)
          \/ TryCreate(p)
          \/ ReadLock(p)
          \/ UnlinkStale(p)
          \/ Wake(p)
          \/ ForceUnlink(p)
          \/ ForceCreate(p)
          \/ ReadAndMutate(p)
          \/ WriteTmp(p)
          \/ Rename(p)
          \/ releaseLock(p)
          \/ Crash(p)

SpecLock == InitLock /\ [][NextLock]_vars

\* ------------------------------------------------------------------------
\* SpecLockDedup: the processes call markEventProcessed with the same key
\* concurrently, each through acquireLock / read / write / releaseLock
\* ------------------------------------------------------------------------

\* const data = await readDispatchState(); the test on processedEvents and
\* the push; the value the call will return is counted when it is true.
ReadAndMark(p) ==
    /\ pc[p] = "read"
    /\ localData' = [localData EXCEPT ![p] = markEventProcessed(stateFile, TrackedKey)]
    /\ trueCount' = IF wasNew(stateFile, TrackedKey) THEN trueCount + 1 ELSE trueCount
    /\ dedupLast' = [key |-> TrackedKey, ret |-> wasNew(stateFile, TrackedKey)]
    /\ pc' = [pc EXCEPT ![p] = "writeTmp"]
    /\ UNCHANGED <<stateFile, now, lockFile, lockOwner, tmpFile, deadline, wakeAt, opResult,
                   storeVars, wdVars, nextKey, sinceTrue, pipeVars, restVars>>

NextLockDedup ==
    \/ AdvanceLockClock
    \/ \E p \in Procs :
          \/ StartOp(p)
          \/ TryCreate(p)
          \/ ReadLock(p)
          \/ UnlinkStale(p)
          \/ Wake(p)
          \/ ForceUnlink(p)
          \/ ForceCreate(p)
          \/ ReadAndMark(p)
          \/ WriteTmp(p)
          \/ Rename(p)
          \/ releaseLock(p)
          \/ Crash(p)

SpecLockDedup == InitLock /\ [][NextLockDedup]_vars

\* The steps a process takes by itself once its operation is called
LockStep(p) ==
    \/ TryCreate(p)
    \/ ReadLock(p)
    \/ UnlinkStale(p)
    \/ Wake(p)
    \/ ForceUnlink(p)
    \/ ForceCreate(p)
    \/ ReadAndMutate(p)
    \/ WriteTmp(p)
    \/ Rename(p)
    \/ releaseLock(p)

\* A waiter p1 beside a process p2 that calls its operation only when it
\* sees no lock file: p2 holds the lock, releases it or dies holding it, and
\* waits only when p1 wins the race for the file.
NextLockWaiter ==
    \/ AdvanceLockClock
    \/ StartOp("p1")
    \/ StartOp("p2") /\ lockFile = Absent
    \/ \E p \in Procs : LockStep(p) \/ Crash(p)

\* Under fair scheduling: time passes, and a process that is neither idle
\* nor dead takes its next step.
SpecLockFair ==
    /\ InitLock /\ [][NextLockWaiter]_vars
    /\ WF_vars(AdvanceLockClock)
    /\ \A p \in Procs : WF_vars(LockStep(p))

\* ------------------------------------------------------------------------
\* SpecFaults: one process calling the store operations one after the other
\* on a state file that may be missing, unparseable or of the wrong shape,
\* with writes that may fail; every await a step
\* ------------------------------------------------------------------------

FaultProc == "p1"

FileKinds == {"document", "missing", "corrupt", "misshapen"}

\* The calls made: register, complete, updateDispatchStatus, pruneCompleted
\* and removeActiveDispatch
FaultOps ==
    {[op |-> o, id |-> "A"] : o \in {"register", "complete", "updateStatus", "removeActive"}}
    \cup {[op |-> "prune"]}

\* Mutant: unparseable content read as if the file were missing
readDispatchState_Lenient(kind, doc) ==
    IF kind = "document"
    THEN [err |-> None, shape |-> "ok", doc |-> doc]
    ELSE IF kind = "misshapen"
    THEN [err |-> None, shape |-> "misshapen", doc |-> emptyState]
    ELSE [err |-> None, shape |-> "ok", doc |-> emptyState]

\* readDispatchState: JSON.parse of the file; ENOENT gives emptyState(), any
\* other error is rethrown. Parsed content without a dispatches object is
\* returned as it is.
readDispatchState(kind, doc) ==
    IF kind = "document"
    THEN [err |-> None, shape |-> "ok", doc |-> doc]
    ELSE IF kind = "missing"
    THEN [err |-> None, shape |-> "ok", doc |-> emptyState]
    ELSE IF kind = "misshapen"
    THEN [err |-> None, shape |-> "misshapen", doc |-> emptyState]
    ELSE [err |-> "SyntaxError", shape |-> "none", doc |-> emptyState]

\* The lines of an operation between its read and its write
Mutate(op, data, t) ==
    IF op.op = "register" THEN registerDispatch(data, op.id, NewDispatch(op.id, t))
    ELSE IF op.op = "complete"
    THEN completeDispatch(data, op.id,
             [tier |-> "senior", status |-> "done", completedAt |-> t])
    ELSE IF op.op = "updateStatus" THEN updateDispatchStatus(data, op.id, "working")
    ELSE IF op.op = "prune" THEN pruneCompleted(data, 0, t)
    ELSE removeActiveDispatch(data, op.id)

\* Whether the operation calls writeDispatchState: updateDispatchStatus only
\* for a dispatch that is there, pruneCompleted only when pruned > 0
Writes(op, data, t) ==
    IF op.op = "updateStatus" THEN op.id \in DOMAIN data.active
    ELSE IF op.op = "prune" THEN PrunedKeys(data, 0, t) # {}
    ELSE TRUE

\* Mutant: an exception leaving the operation without its finally block
AfterThrow_NoFinally == "done"

\* try { ... } finally { await releaseLock(filePath) }: where an exception
\* thrown inside the try block goes
AfterThrow == "release"

InitFaults ==
    /\ stateFile = emptyState
    /\ now = 0
    /\ lastOp = [op |-> "init"]
    /\ lastCall = None
    /\ LockIdle
    /\ WdConstructed(DEFAULT_INACTIVITY_SEC * 1000)
    /\ DedupIdle
    /\ PipeIdle(0)
    /\ RunAgentIdle(FALSE)
    /\ StepsIdle
    /\ MonIdle
    /\ fileKind \in FileKinds
    /\ curOp = [op |-> "none"]
    /\ fileBefore = [kind |-> fileKind, doc |-> emptyState]
    /\ NotifyIdle
    /\ HydrateIdle

\* An operation is called and enters acquireLock.
FStart(op) ==
    /\ pc[FaultProc] = "idle"
    /\ curOp' = op
    /\ fileBefore' = [kind |-> fileKind, doc |-> stateFile]
    /\ pc' = [pc EXCEPT ![FaultProc] = "tryCreate"]
    /\ UNCHANGED <<stateFile, fileKind, lockFile, lockOwner, tmpFile, deadline, wakeAt,
                   localData, opResult, NotFaults>>

\* const data = await readDispatchState(configPath)
FRead ==
    /\ pc[FaultProc] = "read"
    /\ LET r == readDispatchState(fileKind, stateFile)
       IN  IF r.err # None
           THEN /\ opResult' = [opResult EXCEPT ![FaultProc] = r.err]
                /\ pc' = [pc EXCEPT ![FaultProc] = AfterThrow]
                /\ UNCHANGED localData
           ELSE /\ localData' = [localData EXCEPT ![FaultProc] =
                                    [shape |-> r.shape, doc |-> r.doc]]
                /\ pc' = [pc EXCEPT ![FaultProc] = "mutate"]
                /\ UNCHANGED opResult
    /\ UNCHANGED <<stateFile, faultVars, lockFile, lockOwner, tmpFile, deadline, wakeAt, NotFaults>>

\* The mutation: data.dispatches.active / .completed of content without a
\* dispatches object throws a TypeError.
FMutate ==
    /\ pc[FaultProc] = "mutate"
    /\ IF localData[FaultProc].shape = "misshapen"
       THEN /\ opResult' = [opResult EXCEPT ![FaultProc] = "TypeError"]
            /\ pc' = [pc EXCEPT ![FaultProc] = AfterThrow]
            /\ UNCHANGED localData
       ELSE IF Writes(curOp, localData[FaultProc].doc, now)
       THEN /\ localData' = [localData EXCEPT ![FaultProc] =
                    [shape |-> "ok", doc |-> Mutate(curOp, localData[FaultProc].doc, now)]]
            /\ pc' = [pc EXCEPT ![FaultProc] = "writeTmp"]
            /\ UNCHANGED opResult
       ELSE /\ opResult' = [opResult EXCEPT ![FaultProc] = "ok"]
            /\ pc' = [pc EXCEPT ![FaultProc] = "release"]
            /\ UNCHANGED localData
    /\ UNCHANGED <<stateFile, faultVars, lockFile, lockOwner, tmpFile, deadline, wakeAt, NotFaults>>

\* await fs.writeFile(tmpPath, ...), which may fail
FWriteTmp(fails) ==
    /\ pc[FaultProc] = "writeTmp"
    /\ IF fails
       THEN /\ opResult' = [opResult EXCEPT ![FaultProc] = "EIO"]
            /\ pc' = [pc EXCEPT ![FaultProc] = AfterThrow]
            /\ UNCHANGED tmpFile
       ELSE /\ tmpFile' = <<localData[FaultProc].doc>>
            /\ pc' = [pc EXCEPT ![FaultProc] = "rename"]
            /\ UNCHANGED opResult
    /\ UNCHANGED <<stateFile, faultVars, lockFile, lockOwner, deadline, wakeAt, localData, NotFaults>>

\* await fs.rename(tmpPath, filePath), which may fail
FRename(fails) ==
    /\ pc[FaultProc] = "rename"
    /\ IF fails
       THEN /\ opResult' = [opResult EXCEPT ![FaultProc] = "EIO"]
            /\ pc' = [pc EXCEPT ![FaultProc] = AfterThrow]
            /\ UNCHANGED <<stateFile, fileKind, tmpFile>>
       ELSE /\ stateFile' = tmpFile[1]
            /\ fileKind' = "document"
            /\ tmpFile' = Absent
            /\ opResult' = [opResult EXCEPT ![FaultProc] = "ok"]
            /\ pc' = [pc EXCEPT ![FaultProc] = "release"]
    /\ UNCHANGED <<curOp, fileBefore, lockFile, lockOwner, deadline, wakeAt, localData, NotFaults>>

\* The operation has returned or thrown; the caller goes on.
FReturn ==
    /\ pc[FaultProc] = "done"
    /\ pc' = [pc EXCEPT ![FaultProc] = "idle"]
    /\ opResult' = [opResult EXCEPT ![FaultProc] = None]
    /\ localData' = [localData EXCEPT ![FaultProc] = NoData]
    /\ curOp' = [op |-> "none"]
    /\ UNCHANGED <<stateFile, fileKind, fileBefore, lockFile, lockOwner, tmpFile, deadline, wakeAt,
                   NotFaults>>

FAdvance ==
    /\ now < MaxNow
    /\ now' = now + 1
    /\ UNCHANGED <<stateFile, lockVars, faultVars, storeVars, wdVars, dedupVars,
                   pipeVars, raVars, stepPc, monVars, notifyLast, hyVars>>

NextFaults ==
    \/ \E op \in FaultOps : FStart(op)
    \/ TryCreate(FaultProc)
    \/ FRead
    \/ FMutate
    \/ \E fails \in BOOLEAN : FWriteTmp(fails)
    \/ \E fails \in BOOLEAN : FRename(fails)
    \/ releaseLock(FaultProc)
    \/ FReturn
    \/ FAdvance

SpecFaults == InitFaults /\ [][NextFaults]_vars

\* ------------------------------------------------------------------------
\* SpecAtomic: one process runs store operations, fs.writeFile putting its
\* content down in two steps, while a reader reads the state file without
\* the lock (readDispatchState as getActiveDispatch and the listings call it)
\* ------------------------------------------------------------------------

\* A file whose content is being written: truncated, or cut short
Torn == [shape |-> "torn"]

\* writeDispatchState writing the state file in place
WritePath_InPlace == "state"

\* writeDispatchState: const tmpPath = filePath + ".tmp"; writeFile(tmpPath)
WritePath == "tmp"

InitAtomic ==
    /\ InitFaults
    /\ fileKind = "document"

\* fs.writeFile has opened the file it writes and put down part of the
\* content.
AWriteOpen ==
    /\ pc[FaultProc] = "writeTmp"
    /\ IF WritePath = "tmp"
       THEN tmpFile' = <<Torn>> /\ UNCHANGED fileKind
       ELSE fileKind' = "corrupt" /\ UNCHANGED tmpFile
    /\ pc' = [pc EXCEPT ![FaultProc] = "writeRest"]
    /\ UNCHANGED <<stateFile, curOp, fileBefore, lockFile, lockOwner, deadline, wakeAt, localData,
                   opResult, NotFaults>>

\* fs.writeFile has put down the rest and resolves.
AWriteRest ==
    /\ pc[FaultProc] = "writeRest"
    /\ IF WritePath = "tmp"
       THEN tmpFile' = <<localData[FaultProc].doc>> /\ UNCHANGED <<stateFile, fileKind>>
       ELSE /\ stateFile' = localData[FaultProc].doc
            /\ fileKind' = "document"
            /\ UNCHANGED tmpFile
    /\ pc' = [pc EXCEPT ![FaultProc] = "rename"]
    /\ UNCHANGED <<curOp, fileBefore, lockFile, lockOwner, deadline, wakeAt, localData, opResult,
                   NotFaults>>

\* await fs.rename(tmpPath, filePath): ENOENT when there is no tmp file
ARename ==
    /\ pc[FaultProc] = "rename"
    /\ IF tmpFile = Absent
       THEN /\ opResult' = [opResult EXCEPT ![FaultProc] = "ENOENT"]
            /\ pc' = [pc EXCEPT ![FaultProc] = AfterThrow]
            /\ UNCHANGED <<stateFile, fileKind, tmpFile>>
       ELSE /\ stateFile' = IF tmpFile[1] = Torn THEN stateFile ELSE tmpFile[1]
            /\ fileKind' = IF tmpFile[1] = Torn THEN "corrupt" ELSE "document"
            /\ tmpFile' = Absent
            /\ opResult' = [opResult EXCEPT ![FaultProc] = "ok"]
            /\ pc' = [pc EXCEPT ![FaultProc] = "release"]
    /\ UNCHANGED <<curOp, fileBefore, lockFile, lockOwner, deadline, wakeAt, localData, NotFaults>>

\* Where the operation in progress has its mutated document in memory
Mutated == {"writeTmp", "writeRest", "rename"}

\* A reader calls readDispatchState without the lock: what it finds, and
\* the documents before and after the mutation in progress.
LockFreeRead ==
    /\ lastOp' = [op |-> "read",
                  kind |-> fileKind,
                  saw |-> stateFile,
                  during |-> curOp.op # "none",
                  before |-> fileBefore.doc,
                  after |-> IF pc[FaultProc] \in Mutated
                            THEN localData[FaultProc].doc ELSE stateFile]
    /\ UNCHANGED <<stateFile, now, lastCall, lockVars, wdVars, dedupVars, pipeVars,
                   restVars>>

NextAtomic ==
    \/ \E op \in FaultOps : FStart(op)
    \/ TryCreate(FaultProc)
    \/ FRead
    \/ FMutate
    \/ AWriteOpen
    \/ AWriteRest
    \/ ARename
    \/ releaseLock(FaultProc)
    \/ FReturn
    \/ FAdvance
    \/ LockFreeRead

SpecAtomic == InitAtomic /\ [][NextAtomic]_vars

\* ------------------------------------------------------------------------
\* SpecWatchdog: one InactivityWatchdog under any sequence of start(),
\* tick(), stop(), timer callbacks and clock advances (watchdog.ts)
\* ------------------------------------------------------------------------

\* The thresholds the constructor is given: one below MIN_CHECK_MS, one above.
InactivityInputs == {MIN_CHECK_MS \div 2, 2 * MIN_CHECK_MS}

\* How an onKill invocation ends
KillOutcomes == {"returns", "throws", "rejects"}

Max(a, b) == IF a >= b THEN a ELSE b

\* Mutant: scheduleCheck waiting a whole period whatever the silence so far
Remaining_WholePeriod(ms, t, last) == Max(MIN_CHECK_MS, ms)

\* scheduleCheck: Math.max(1000, inactivityMs - (Date.now() - lastActivityAt))
Remaining(ms, t, last) == Max(MIN_CHECK_MS, ms - (t - last))

\* The timer callback's test with the bound of the wait in place of the threshold
Expired_MinCheck(silence, ms) == silence >= MIN_CHECK_MS

\* The timer callback: silence >= this.inactivityMs
Expired(silence, ms) == silence >= ms

\* The timer callback returning early on !started alone
CheckSkipped_StartedOnly == ~started

\* The timer callback: if (this.killed || !this.started) return
CheckSkipped == killed \/ ~started

InitWatchdog ==
    /\ stateFile = emptyState
    /\ now = 0
    /\ lastOp = [op |-> "init"]
    /\ lastCall = None
    /\ LockIdle
    /\ DedupIdle
    /\ PipeIdle(0)
    /\ RestIdle
    /\ \E ms \in InactivityInputs : WdConstructed(ms)

\* start()
WdStart ==
    /\ wdLast' = [op |-> "start", kill |-> FALSE]
    /\ IF started
       THEN UNCHANGED <<started, lastActivityAt, timer, pending, ticksInTime, wdStop>>
       ELSE /\ started' = TRUE
            /\ lastActivityAt' = now
            /\ timer' = <<now + Remaining(inactivityMs, now, now)>>
            /\ pending' = pending \cup {now + Remaining(inactivityMs, now, now)}
            /\ ticksInTime' = TRUE
            /\ wdStop' = [stopped |-> FALSE, cleared |-> Absent]
    /\ UNCHANGED <<now, inactivityMs, killed, killCount, threw, prevActivityAt, NotWd>>

\* tick()
WdTick ==
    /\ lastActivityAt' = now
    /\ prevActivityAt' = lastActivityAt
    /\ wdLast' = [op |-> "tick", kill |-> FALSE]
    /\ UNCHANGED <<now, inactivityMs, timer, pending, killed, started, killCount,
                   threw, ticksInTime, wdStop, NotWd>>

\* stop() leaving the timeout set
clearTimeout_Kept(due, handle) == due

\* if (this.timer) clearTimeout(this.timer): the timeouts still to fire
clearTimeout(due, handle) ==
    IF handle # Absent THEN due \ {handle[1]} ELSE due

\* stop()
WdStop ==
    /\ pending' = clearTimeout(pending, timer)
    /\ timer' = Absent
    /\ started' = FALSE
    /\ wdStop' = [stopped |-> TRUE,
                  cleared |-> IF timer # Absent /\ timer[1] \in pending
                              THEN timer ELSE Absent]
    /\ wdLast' = [op |-> "stop", kill |-> FALSE]
    /\ UNCHANGED <<now, inactivityMs, lastActivityAt, killed, killCount, threw,
                   prevActivityAt, ticksInTime, NotWd>>

\* The callback of the timeout due at d runs (at d or later).
WdFire(d, outcome) ==
    /\ d \in pending
    /\ now >= d
    /\ IF CheckSkipped
       THEN /\ pending' = pending \ {d}
            /\ wdLast' = [op |-> "fire", kill |-> FALSE]
            /\ UNCHANGED <<timer, killed, killCount, threw>>
       ELSE IF Expired(now - lastActivityAt, inactivityMs)
       THEN /\ pending' = pending \ {d}
            /\ killed' = TRUE
            /\ killCount' = killCount + 1
            /\ threw' = (threw \/ outcome # "returns")
            /\ wdLast' = [op |-> "fire", kill |-> TRUE]
            /\ UNCHANGED timer
       ELSE /\ timer' = <<now + Remaining(inactivityMs, now, lastActivityAt)>>
            /\ pending' = (pending \ {d})
                            \cup {now + Remaining(inactivityMs, now, lastActivityAt)}
            /\ wdLast' = [op |-> "fire", kill |-> FALSE]
            /\ UNCHANGED <<killed, killCount, threw>>
    /\ UNCHANGED <<now, inactivityMs, lastActivityAt, started, prevActivityAt,
                   ticksInTime, wdStop, NotWd>>

\* The instants the clock moves to: 1 ms before, at and 1 ms after a timeout
\* falls due or the silence reaches the threshold.
WdInstants ==
    UNION {{d - 1, d, d + 1} : d \in pending \cup {lastActivityAt + inactivityMs}}

WdAdvance ==
    /\ \E t \in WdInstants :
          /\ t > now
          /\ t <= MaxWdClock
          /\ now' = t
    /\ ticksInTime' = (ticksInTime /\ (started => now' - lastActivityAt < inactivityMs))
    /\ wdLast' = [op |-> "clock", kill |-> FALSE]
    /\ UNCHANGED <<inactivityMs, timer, pending, lastActivityAt, killed, started,
                   killCount, threw, prevActivityAt, wdStop, NotWd>>

NextWatchdog ==
    \/ WdStart
    \/ WdTick
    \/ WdStop
    \/ \E d \in pending, outcome \in KillOutcomes : WdFire(d, outcome)
    \/ WdAdvance

SpecWatchdog == InitWatchdog /\ [][NextWatchdog]_vars

\* ------------------------------------------------------------------------
\* SpecWatchdogPunctual: the watchdog with every timeout callback run at the
\* instant it falls due (an idle event loop), ticks arriving half a
\* MIN_CHECK_MS apart and around the instants the checks run
\* ------------------------------------------------------------------------

\* The instants the clock moves to
PunctualInstants == WdInstants \cup {now + MIN_CHECK_MS \div 2}

\* Time passes, never beyond a timeout that is due and has not run.
WdAdvancePunctual ==
    /\ \E t \in PunctualInstants :
          /\ t > now
          /\ t <= MaxWdClock
          /\ \A d \in pending : t <= d
          /\ now' = t
    /\ ticksInTime' = (ticksInTime /\ (started => now' - lastActivityAt < inactivityMs))
    /\ wdLast' = [op |-> "clock", kill |-> FALSE]
    /\ UNCHANGED <<inactivityMs, timer, pending, lastActivityAt, killed, started,
                   killCount, threw, prevActivityAt, wdStop, NotWd>>

NextWatchdogPunctual ==
    \/ WdStart
    \/ WdTick
    \/ WdStop
    \/ \E d \in pending, outcome \in KillOutcomes : WdFire(d, outcome)
    \/ WdAdvancePunctual

SpecWatchdogPunctual == InitWatchdog /\ [][NextWatchdogPunctual]_vars

\* ------------------------------------------------------------------------
\* SpecDedup: markEventProcessed called with one tracked key, with keys
\* never seen before and with keys seen before, in any order
\* ------------------------------------------------------------------------

InitDedup ==
    /\ stateFile = emptyState
    /\ now = 0
    /\ lastOp = [op |-> "init"]
    /\ lastCall = None
    /\ OthersIdle

MarkEvent(eventKey) ==
    /\ stateFile' = markEventProcessed(stateFile, eventKey)
    /\ dedupLast' = [key |-> eventKey, ret |-> wasNew(stateFile, eventKey)]
    /\ nextKey' = IF eventKey = nextKey THEN nextKey + 1 ELSE nextKey
    /\ trueCount' = IF eventKey = TrackedKey /\ wasNew(stateFile, eventKey)
                    THEN trueCount + 1 ELSE trueCount
    /\ sinceTrue' = IF ~wasNew(stateFile, eventKey) THEN sinceTrue
                    ELSE IF eventKey = TrackedKey THEN 0
                    ELSE IF sinceTrue >= 0 THEN sinceTrue + 1
                    ELSE sinceTrue
    /\ UNCHANGED NotDedup

\* The keys passed again: the oldest and the newest of those recorded
Replayed ==
    IF stateFile.processedEvents = <<>> THEN {}
    ELSE {Head(stateFile.processedEvents),
          stateFile.processedEvents[Len(stateFile.processedEvents)]}

NextDedup ==
    \/ MarkEvent(TrackedKey)
    \/ nextKey <= MaxKeys /\ MarkEvent(nextKey)
    \/ \E k \in Replayed : MarkEvent(k)

SpecDedup == InitDedup /\ [][NextDedup]_vars

\* ------------------------------------------------------------------------
\* SpecPipeline: one dispatch through Spawn Worker, Trigger Audit and
\* Process Verdict, each agent completion delivered to the pipeline directly
\* and, any number of times, through the agent_end hook (index.ts)
\* ------------------------------------------------------------------------

PipeIds == {"A"}

\* What an agent's output reads as when parsed for a verdict
Outputs == {"pass", "fail"}

\* How AgentRunner.run ends
RunOutcomes == {"ok", "failed", "watchdogKilled"}

\* lookupSessionMapping and getActiveDispatch return null for a missing key:
\* here <<>>, and <<entry>> for a key that is there.
lookupSessionMapping(data, sessionKey) ==
    IF sessionKey \in DOMAIN data.sessionMap THEN <<data.sessionMap[sessionKey]>> ELSE Absent

getActiveDispatch(data, id) ==
    IF id \in DOMAIN data.active THEN <<data.active[id]>> ELSE Absent

\* complete leaving the document as it is
completeAndPurge_NoMove(data, id, result) == data

\* complete: move the record to completed and purge its session mappings
completeAndPurge(data, id, result) ==
    [completeDispatch(data, id, result) EXCEPT
        !.sessionMap = [k \in {x \in DOMAIN @ : @[x].dispatchId # id} |-> @[k]]]

AuditTriggerKey(id, attempt) == <<"audit-trigger", id, attempt>>

VerdictKey(id, attempt) == <<"verdict", id, attempt>>

\* The hook sending every completion to Process Verdict
HookTarget_AllVerdict(phase) == "processVerdict"

\* agent_end: worker completions go to triggerAudit, audit completions to
\* processVerdict
HookTarget(phase) ==
    IF phase = "worker" THEN "triggerAudit"
    ELSE IF phase = "audit" THEN "processVerdict"
    ELSE None

\* Process Verdict's test for a rework, one attempt too generous
CanRework_Inclusive(attempt, max) == attempt <= max

\* Process Verdict: fail and attempt + 1 <= maxReworkAttempts
CanRework(attempt, max) == attempt + 1 <= max

\* Spawn Worker steps 1-2 on the document
spawnWorker(data, id, attempt) ==
    registerSessionMapping(
        transitionDispatch(data, id, "dispatched", "working",
            [workerSessionKey |-> SessionKey("worker", id, attempt)]),
        SessionKey("worker", id, attempt),
        [dispatchId |-> id, phase |-> "worker", attempt |-> attempt])

\* Trigger Audit goes past its guard and its CAS
AuditStarts(data, id, attempt) ==
    /\ wasNew(data, AuditTriggerKey(id, attempt))
    /\ TransitionFailure(data, id, "working", "auditing") = None

\* Trigger Audit steps 1-3 on the document
triggerAudit(data, id, attempt) ==
    IF ~wasNew(data, AuditTriggerKey(id, attempt)) THEN data
    ELSE IF ~AuditStarts(data, id, attempt)
    THEN markEventProcessed(data, AuditTriggerKey(id, attempt))
    ELSE registerSessionMapping(
            transitionDispatch(markEventProcessed(data, AuditTriggerKey(id, attempt)),
                id, "working", "auditing",
                [auditSessionKey |-> SessionKey("audit", id, attempt)]),
            SessionKey("audit", id, attempt),
            [dispatchId |-> id, phase |-> "audit", attempt |-> attempt])

\* Process Verdict goes past its guard and its CAS
VerdictActs(data, id, attempt) ==
    /\ wasNew(data, VerdictKey(id, attempt))
    /\ id \in DOMAIN data.active
    /\ data.active[id].status = "auditing"

\* Process Verdict on the document; a rework goes on into Spawn Worker,
\* which stores and maps the session key of the next attempt.
processVerdict(data, id, attempt, pass, max, t) ==
    IF ~wasNew(data, VerdictKey(id, attempt)) THEN data
    ELSE IF ~VerdictActs(data, id, attempt)
    THEN markEventProcessed(data, VerdictKey(id, attempt))
    ELSE LET d1 == markEventProcessed(data, VerdictKey(id, attempt)) IN
         IF pass
         THEN completeAndPurge(
                  transitionDispatch(d1, id, "auditing", "done", EmptyObj), id,
                  [tier |-> d1.active[id].tier, status |-> "done", completedAt |-> t])
         ELSE IF CanRework(attempt, max)
         THEN registerSessionMapping(
                  transitionDispatch(d1, id, "auditing", "working",
                      [attempt |-> attempt + 1, auditSessionKey |-> Absent,
                       workerSessionKey |-> SessionKey("worker", id, attempt + 1)]),
                  SessionKey("worker", id, attempt + 1),
                  [dispatchId |-> id, phase |-> "worker", attempt |-> attempt + 1])
         ELSE transitionDispatch(d1, id, "auditing", "stuck",
                  [stuckReason |-> "audit_failed_max_attempts"])

InitPipeline ==
    /\ stateFile = registerDispatch(emptyState, "A", NewDispatch("A", 0))
    /\ now = 0
    /\ lastOp = [op |-> "init"]
    /\ lastCall = None
    /\ LockIdle
    /\ WdConstructed(DEFAULT_INACTIVITY_SEC * 1000)
    /\ DedupIdle
    /\ RestIdle
    /\ \E max \in 0..MaxRework : PipeIdle(max)

Run(phase, id, attempt) ==
    [key |-> SessionKey(phase, id, attempt), phase |-> phase, id |-> id, attempt |-> attempt]

\* Spawn Worker, called by the dispatcher for a registered dispatch
SpawnWorker(id) ==
    /\ id \in DOMAIN stateFile.active
    /\ IF TransitionFailure(stateFile, id, "dispatched", "working") # None
       THEN /\ pipeLast' = [op |-> "spawnWorker"]
            /\ UNCHANGED <<stateFile, runs>>
       ELSE /\ stateFile' = spawnWorker(stateFile, id, stateFile.active[id].attempt)
            /\ runs' = runs \cup {Run("worker", id, stateFile.active[id].attempt)}
            /\ pipeLast' = [op |-> "spawnWorker"]
    /\ UNCHANGED <<maxReworkAttempts, events, reworks, failVerdicts, bodyCount, escalations, NotPipe>>

\* AgentRunner.run returns: the pipeline will go on with the result, and the
\* gateway will emit agent_end for the session.
RunEnds(r, outcome, output) ==
    /\ r \in runs
    /\ outcome = "ok" \/ (output = "fail" /\ r.phase = "worker")
    /\ runs' = runs \ {r}
    /\ events' = events \cup
          {[run |-> r, outcome |-> outcome, output |-> output, via |-> v] :
              v \in {"direct", "hook"}}
    /\ pipeLast' = [op |-> "runEnds"]
    /\ UNCHANGED <<stateFile, maxReworkAttempts, reworks, failVerdicts, bodyCount, escalations,
                   NotPipe>>

\* The bookkeeping shared by the two ways into Trigger Audit
DoTriggerAudit(id, attempt, e) ==
    /\ stateFile' = triggerAudit(stateFile, id, attempt)
    /\ runs' = IF AuditStarts(stateFile, id, attempt)
               THEN runs \cup {Run("audit", id, attempt)} ELSE runs
    /\ pipeLast' = [op |-> "triggerAudit", via |-> e.via, key |-> e.run.key]
    /\ bodyCount' = IF AuditStarts(stateFile, id, attempt)
                    THEN Bump(bodyCount, <<"audit", id, attempt>>) ELSE bodyCount
    /\ UNCHANGED <<reworks, failVerdicts, escalations>>

\* Escalation on every failing verdict delivered at the maximum
VerdictEscalates_Unguarded(data, id, attempt, pass, max) ==
    ~pass /\ ~CanRework(attempt, max)

\* Process Verdict reaches "fail and max reached": past the guard and with
\* the CAS auditing -> stuck to succeed
VerdictEscalates(data, id, attempt, pass, max) ==
    VerdictActs(data, id, attempt) /\ ~pass /\ ~CanRework(attempt, max)

\* post escalation comment; notify escalation
Escalate(id) == Bump(Bump(escalations, <<"comment", id>>), <<"notify", id>>)

\* The bookkeeping shared by the two ways into Process Verdict
DoProcessVerdict(id, attempt, e) ==
    LET pass == e.outcome = "ok" /\ e.output = "pass"
        acts == VerdictActs(stateFile, id, attempt)
        again == acts /\ ~pass /\ CanRework(attempt, maxReworkAttempts)
    IN  /\ stateFile' = processVerdict(stateFile, id, attempt, pass, maxReworkAttempts, now)
        /\ runs' = IF again THEN runs \cup {Run("worker", id, attempt + 1)} ELSE runs
        /\ reworks' = IF again THEN reworks + 1 ELSE reworks
        /\ failVerdicts' = IF acts /\ ~pass THEN failVerdicts + 1 ELSE failVerdicts
        /\ bodyCount' = IF acts THEN Bump(bodyCount, <<"verdict", id, attempt>>)
                        ELSE bodyCount
        /\ escalations' = IF VerdictEscalates(stateFile, id, attempt, pass, maxReworkAttempts)
                          THEN Escalate(id) ELSE escalations
        /\ pipeLast' = [op |-> "processVerdict", acted |-> acts, pass |-> pass,
                        origin |-> e.run.phase, attempt |-> attempt,
                        via |-> e.via, key |-> e.run.key]
    
\* spawnWorker after runAgent: a watchdog kill escalates, anything else
\* goes on to triggerAudit (architecture.md, Worker Phase steps 8-9).
WorkerEscalates(outcome) == outcome = "watchdogKilled"

\* The pipeline goes on with the result of the run it awaited: spawnWorker
\* steps 8-9, triggerAudit step 5.
DeliverDirect(e) ==
    /\ e \in events
    /\ e.via = "direct"
    /\ events' = events \ {e}
    /\ IF e.run.phase = "audit"
       THEN DoProcessVerdict(e.run.id, e.run.attempt, e)
       ELSE IF ~WorkerEscalates(e.outcome)
       THEN DoTriggerAudit(e.run.id, e.run.attempt, e)
       ELSE /\ stateFile' = transitionDispatch(stateFile, e.run.id, "working", "stuck",
                  [stuckReason |-> "watchdog_kill_2x"])
            /\ escalations' =
                  IF TransitionFailure(stateFile, e.run.id, "working", "stuck") = None
                  THEN Escalate(e.run.id) ELSE escalations
            /\ pipeLast' = [op |-> "workerFailed"]
            /\ UNCHANGED <<runs, reworks, failVerdicts, bodyCount>>
    /\ UNCHANGED <<maxReworkAttempts, NotPipe>>

\* The hook taking every event as current
StaleEvent_Never(dispatch, mapping) == FALSE

\* agent_end: dispatch.attempt !== mapping.attempt
StaleEvent(dispatch, mapping) == dispatch.attempt # mapping.attempt

\* The agent_end hook: ignore unknown sessions, inactive dispatches, stale
\* attempts and a missing Linear access token, then dispatch on the
\* mapping's phase.
DeliverHook(e, hasToken) ==
    /\ e \in events
    /\ e.via = "hook"
    /\ LET mapping == lookupSessionMapping(stateFile, e.run.key)
           dispatch == IF mapping = Absent THEN Absent
                       ELSE getActiveDispatch(stateFile, mapping[1].dispatchId)
       IN  IF mapping = Absent \/ dispatch = Absent
           THEN /\ pipeLast' = [op |-> "hookIgnored", key |-> e.run.key]
                /\ UNCHANGED <<stateFile, runs, reworks, failVerdicts, bodyCount, escalations>>
           ELSE IF StaleEvent(dispatch[1], mapping[1]) \/ ~hasToken
           THEN /\ pipeLast' = [op |-> "hookIgnored", key |-> e.run.key]
                /\ UNCHANGED <<stateFile, runs, reworks, failVerdicts, bodyCount, escalations>>
           ELSE IF HookTarget(mapping[1].phase) = "triggerAudit"
           THEN DoTriggerAudit(mapping[1].dispatchId, dispatch[1].attempt, e)
           ELSE IF HookTarget(mapping[1].phase) = "processVerdict"
           THEN DoProcessVerdict(mapping[1].dispatchId, dispatch[1].attempt, e)
           ELSE /\ pipeLast' = [op |-> "hookIgnored", key |-> e.run.key]
                /\ UNCHANGED <<stateFile, runs, reworks, failVerdicts, bodyCount, escalations>>
    /\ UNCHANGED <<events, maxReworkAttempts, NotPipe>>

NextPipeline ==
    \/ \E id \in PipeIds : SpawnWorker(id)
    \/ \E r \in runs, outcome \in RunOutcomes, output \in Outputs : RunEnds(r, outcome, output)
    \/ \E e \in events : DeliverDirect(e)
    \/ \E e \in events, hasToken \in BOOLEAN : DeliverHook(e, hasToken)

SpecPipeline == InitPipeline /\ [][NextPipeline]_vars

\* ------------------------------------------------------------------------
\* SpecRunAgent: one call of runAgent, runAgentOnce returning any result
\* (agent.ts)
\* ------------------------------------------------------------------------

\* AgentRunResult; watchdogKilled is optional
RunResults ==
    [success : BOOLEAN, watchdogKilled : {"true", "false", "undefined"},
     output : {"", "partial", "full"}]

\* JavaScript truthiness of result.watchdogKilled
Truthy(x) == x = "true"

\* runAgent retrying after every failed run
ShouldReturn_RetryAnyFailure(result, attempt) ==
    result.success \/ attempt = maxAttempts - 1

\* runAgent: result.success || !result.watchdogKilled || attempt === maxAttempts - 1
ShouldReturn(result, attempt) ==
    result.success \/ ~Truthy(result.watchdogKilled) \/ attempt = maxAttempts - 1

InitRunAgent ==
    /\ stateFile = emptyState
    /\ now = 0
    /\ lastOp = [op |-> "init"]
    /\ lastCall = None
    /\ LockIdle
    /\ WdConstructed(DEFAULT_INACTIVITY_SEC * 1000)
    /\ DedupIdle
    /\ PipeIdle(0)
    /\ StepsIdle
    /\ MonIdle
    /\ FaultsIdle
    /\ NotifyIdle
    /\ HydrateIdle
    /\ \E streaming \in BOOLEAN : RunAgentIdle(streaming)

\* One turn of the for loop, or the statement after it.
RunAgentStep(result) ==
    /\ raReturned = Absent
    /\ IF raAttempt < maxAttempts
       THEN /\ raRuns' = Append(raRuns, result)
            /\ IF ShouldReturn(result, raAttempt)
               THEN /\ raReturned' = <<result>>
                    /\ UNCHANGED <<raAttempt, raActivities>>
               ELSE /\ raAttempt' = raAttempt + 1
                    /\ raActivities' = IF raStreaming THEN raActivities + 1
                                       ELSE raActivities
                    /\ UNCHANGED raReturned
       ELSE /\ raReturned' = <<[success |-> FALSE, watchdogKilled |-> "undefined",
                                output |-> "Watchdog retry exhausted"]>>
            /\ UNCHANGED <<raRuns, raAttempt, raActivities>>
    /\ UNCHANGED <<raStreaming, rePc, NotRunAgent>>

NextRunAgent == \E result \in RunResults : RunAgentStep(result)

SpecRunAgent == InitRunAgent /\ [][NextRunAgent]_vars

\* ------------------------------------------------------------------------
\* SpecRetry: one call of runAgent with its runs spelled out: runEmbedded
\* with the watchdog it constructs, the subprocess fallback, the clock
\* (agent.ts)
\* ------------------------------------------------------------------------

\* One watchdog kept for all runs of a call
WatchdogForRun_Shared(prevKilled) == prevKilled

\* runEmbedded: new InactivityWatchdog({...}) for this run; killed = false
WatchdogForRun(prevKilled) == FALSE

\* runEmbedded after watchdog.stop(): watchdogKilled, meta.error, success
EmbeddedResult(wasKilled, agentError) ==
    IF wasKilled THEN [success |-> FALSE, watchdogKilled |-> "true", output |-> "partial"]
    ELSE IF agentError
    THEN [success |-> FALSE, watchdogKilled |-> "undefined", output |-> "partial"]
    ELSE [success |-> TRUE, watchdogKilled |-> "undefined", output |-> "full"]

\* runSubprocess: result.code !== 0 or not
SubprocessResult(failed) ==
    IF failed THEN [success |-> FALSE, watchdogKilled |-> "undefined", output |-> "partial"]
    ELSE [success |-> TRUE, watchdogKilled |-> "undefined", output |-> "full"]

InitRetry ==
    /\ stateFile = emptyState
    /\ now = 0
    /\ lastOp = [op |-> "init"]
    /\ lastCall = None
    /\ LockIdle
    /\ \E ms \in InactivityInputs : WdConstructed(ms)
    /\ DedupIdle
    /\ PipeIdle(0)
    /\ StepsIdle
    /\ MonIdle
    /\ FaultsIdle
    /\ NotifyIdle
    /\ HydrateIdle
    /\ \E streaming \in BOOLEAN : RunAgentIdle(streaming)

\* runAgentOnce is called: with streaming, runEmbedded constructs its
\* watchdog, starts it and awaits the agent; without, runSubprocess.
ReBegin ==
    /\ rePc = "idle"
    /\ raReturned = Absent
    /\ raAttempt < maxAttempts
    /\ IF raStreaming
       THEN /\ rePc' = "embedded"
            /\ killed' = WatchdogForRun(killed)
            /\ started' = TRUE
            /\ lastActivityAt' = now
            /\ prevActivityAt' = now
            /\ timer' = <<now + Remaining(inactivityMs, now, now)>>
            /\ pending' = {now + Remaining(inactivityMs, now, now)}
            /\ killCount' = 0
            /\ threw' = FALSE
            /\ ticksInTime' = TRUE
            /\ wdStop' = [stopped |-> FALSE, cleared |-> Absent]
            /\ wdLast' = [op |-> "start", kill |-> FALSE]
       ELSE /\ rePc' = "subprocess"
            /\ UNCHANGED <<killed, started, lastActivityAt, prevActivityAt, timer, pending,
                           killCount, threw, ticksInTime, wdStop, wdLast>>
    /\ UNCHANGED <<now, inactivityMs, raStreaming, raAttempt, raRuns, raReturned,
                   raActivities, stepPc, monVars, faultVars, notifyLast, hyVars,
                   stateFile, storeVars, lockVars, dedupVars, pipeVars>>

\* A streaming callback of the embedded run: watchdog.tick()
ReTick ==
    /\ rePc = "embedded"
    /\ WdTick

\* runAgent's loop body after runAgentOnce has returned result
LoopOn(result, fired) ==
    /\ raRuns' = Append(raRuns, [result |-> result, fired |-> fired])
    /\ IF ShouldReturn(result, raAttempt)
       THEN /\ raReturned' = <<result>>
            /\ rePc' = "returned"
            /\ UNCHANGED <<raAttempt, raActivities>>
       ELSE /\ raAttempt' = raAttempt + 1
            /\ raActivities' = IF raStreaming THEN raActivities + 1 ELSE raActivities
            /\ rePc' = "idle"
            /\ UNCHANGED raReturned

\* runEmbeddedPiAgent resolves: watchdog.stop(), the result by wasKilled and
\* meta.error, and on into runAgent's loop
ReEnd(agentError) ==
    /\ rePc = "embedded"
    /\ pending' = clearTimeout(pending, timer)
    /\ timer' = Absent
    /\ started' = FALSE
    /\ wdStop' = [stopped |-> TRUE,
                  cleared |-> IF timer # Absent /\ timer[1] \in pending
                              THEN timer ELSE Absent]
    /\ wdLast' = [op |-> "stop", kill |-> FALSE]
    /\ LoopOn(EmbeddedResult(killed, agentError), killCount > 0)
    /\ UNCHANGED <<now, inactivityMs, lastActivityAt, killed, killCount, threw,
                   prevActivityAt, ticksInTime, raStreaming, stepPc, monVars, faultVars,
                   notifyLast, hyVars, stateFile, storeVars, lockVars, dedupVars, pipeVars>>

\* runEmbedded throws: runAgentOnce logs and falls back to runSubprocess;
\* watchdog.stop() was not reached.
ReThrow ==
    /\ rePc = "embedded"
    /\ rePc' = "subprocess"
    /\ UNCHANGED <<raStreaming, raAttempt, raRuns, raReturned, raActivities,
                   stateFile, now, storeVars, lockVars, wdVars, dedupVars, pipeVars,
                   stepPc, monVars, faultVars, notifyLast, hyVars>>

\* runSubprocess returns, and on into runAgent's loop
ReSubEnd(failed) ==
    /\ rePc = "subprocess"
    /\ LoopOn(SubprocessResult(failed), FALSE)
    /\ UNCHANGED <<raStreaming, stateFile, now, storeVars, lockVars, wdVars, dedupVars,
                   pipeVars, stepPc, monVars, faultVars, notifyLast, hyVars>>

NextRetry ==
    \/ ReBegin
    \/ ReTick
    \/ \E d \in pending, outcome \in KillOutcomes : WdFire(d, outcome)
    \/ \E agentError \in BOOLEAN : ReEnd(agentError)
    \/ ReThrow
    \/ \E failed \in BOOLEAN : ReSubEnd(failed)
    \/ WdAdvance

SpecRetry == InitRetry /\ [][NextRetry]_vars

\* ------------------------------------------------------------------------
\* SpecHydrate: hydrateFromDispatchState called at startup on any state
\* file of up to two active dispatches (active-session.ts)
\* ------------------------------------------------------------------------

\* The statuses a stored active dispatch can carry: those of the state
\* machine, and "running" of the earlier ActiveDispatch type
StoredStatuses == Statuses \cup {"running"}

\* dispatch.issueId of the dispatch with this identifier
IssueId(id) == <<"uuid", id>>

\* An active dispatch as stored, with the fields hydration reads
StoredDispatch(id, status, agentSessionId) ==
    [issueId |-> IssueId(id), issueIdentifier |-> id, status |-> status,
     dispatchedAt |-> 0, agentSessionId |-> agentSessionId]

\* dispatch.status === "dispatched" || dispatch.status === "running"
Restorable(dispatch) == dispatch.status = "dispatched" \/ dispatch.status = "running"

\* The entry sessions.set writes: agentSessionId ?? "", startedAt from
\* dispatchedAt
SessionOf(dispatch) ==
    [agentSessionId |-> IF dispatch.agentSessionId = Absent THEN ""
                        ELSE dispatch.agentSessionId[1],
     issueIdentifier |-> dispatch.issueIdentifier,
     issueId |-> dispatch.issueId,
     startedAt |-> dispatch.dispatchedAt]

\* The Map after the loop of hydrateFromDispatchState over state.active
hydrateFromDispatchState(map, state) ==
    LET hits == {k \in DOMAIN state.active : Restorable(state.active[k])}
        byIssue(i) == CHOOSE k \in hits : state.active[k].issueId = i
        issues == {state.active[k].issueId : k \in hits}
    IN  [i \in DOMAIN map \cup issues |->
            IF i \in issues THEN SessionOf(state.active[byIssue(i)]) ELSE map[i]]

\* restored: one increment per entry that passed the test
RestoredCount(state) ==
    Cardinality({k \in DOMAIN state.active : Restorable(state.active[k])})

InitHydrate ==
    /\ \E present \in SUBSET Ids :
          \E st \in [present -> StoredStatuses], sess \in [present -> {Absent, <<"s1">>}] :
             stateFile = [emptyState EXCEPT !.active =
                             [id \in present |-> StoredDispatch(id, st[id], sess[id])]]
    /\ now = 0
    /\ lastOp = [op |-> "init"]
    /\ lastCall = None
    /\ OthersIdle

\* The dispatch service calls hydrateFromDispatchState() on startup.
Hydrate ==
    /\ restored = Absent
    /\ sessions' = hydrateFromDispatchState(sessions, stateFile)
    /\ restored' = <<RestoredCount(stateFile)>>
    /\ UNCHANGED NotHydrate

NextHydrate == Hydrate

SpecHydrate == InitHydrate /\ [][NextHydrate]_vars

\* ------------------------------------------------------------------------
\* SpecSteps: the pipelines of two dispatches, each store primitive of
\* Spawn Worker, Trigger Audit and Process Verdict a locked mutation of its
\* own, interleaved in any order
\* ------------------------------------------------------------------------

PipelinePcs == {"start", "spawnRegister", "working", "auditRegister", "auditing", "reworkSpawn"}

WorkerMapping(id, attempt) == [dispatchId |-> id, phase |-> "worker", attempt |-> attempt]

AuditMapping(id, attempt) == [dispatchId |-> id, phase |-> "audit", attempt |-> attempt]

InitSteps ==
    /\ stateFile = registerDispatch(
                       registerDispatch(emptyState, "A", NewDispatch("A", 0)),
                       "B", NewDispatch("B", 0))
    /\ now = 0
    /\ lastOp = [op |-> "init"]
    /\ lastCall = None
    /\ LockIdle
    /\ WdConstructed(DEFAULT_INACTIVITY_SEC * 1000)
    /\ DedupIdle
    /\ RunAgentIdle(FALSE)
    /\ StepsIdle
    /\ MonIdle
    /\ FaultsIdle
    /\ NotifyIdle
    /\ HydrateIdle
    /\ \E max \in 0..MaxRework : PipeIdle(max)

\* Spawn Worker step 1: CAS dispatched -> working storing workerSessionKey
StepSpawnCAS(id) ==
    /\ stepPc[id] = "start"
    /\ stateFile' = transitionDispatch(stateFile, id, "dispatched", "working",
          [workerSessionKey |-> SessionKey("worker", id, stateFile.active[id].attempt)])
    /\ stepPc' = [stepPc EXCEPT ![id] =
          IF TransitionFailure(stateFile, id, "dispatched", "working") = None
          THEN "spawnRegister" ELSE "end"]
    /\ UNCHANGED NotSteps

\* Spawn Worker step 2: register the mapping of the worker session key
StepSpawnRegister(id) ==
    /\ stepPc[id] = "spawnRegister"
    /\ stateFile' = registerSessionMapping(stateFile,
          SessionKey("worker", id, stateFile.active[id].attempt),
          WorkerMapping(id, stateFile.active[id].attempt))
    /\ stepPc' = [stepPc EXCEPT ![id] = "working"]
    /\ UNCHANGED NotSteps

\* spawnWorker step 8: the run was killed by the watchdog
StepWorkerFails(id, reason) ==
    /\ stepPc[id] = "working"
    /\ stateFile' = transitionDispatch(stateFile, id, "working", "stuck",
                                       [stuckReason |-> reason])
    /\ stepPc' = [stepPc EXCEPT ![id] = "end"]
    /\ UNCHANGED NotSteps

\* Trigger Audit steps 1-2: the guard, then CAS working -> auditing storing
\* auditSessionKey
StepAuditCAS(id) ==
    /\ stepPc[id] = "working"
    /\ LET attempt == stateFile.active[id].attempt
           d1 == markEventProcessed(stateFile, AuditTriggerKey(id, attempt))
       IN  IF AuditStarts(stateFile, id, attempt)
           THEN /\ stateFile' = transitionDispatch(d1, id, "working", "auditing",
                      [auditSessionKey |-> SessionKey("audit", id, attempt)])
                /\ stepPc' = [stepPc EXCEPT ![id] = "auditRegister"]
           ELSE /\ stateFile' = d1
                /\ stepPc' = [stepPc EXCEPT ![id] = "end"]
    /\ UNCHANGED NotSteps

\* Trigger Audit step 3: register the mapping of the audit session key
StepAuditRegister(id) ==
    /\ stepPc[id] = "auditRegister"
    /\ stateFile' = registerSessionMapping(stateFile,
          SessionKey("audit", id, stateFile.active[id].attempt),
          AuditMapping(id, stateFile.active[id].attempt))
    /\ stepPc' = [stepPc EXCEPT ![id] = "auditing"]
    /\ UNCHANGED NotSteps

\* A rework patch that steps the attempt back
NextAttempt_Back(attempt) == attempt - 1

\* Process Verdict step 4: patch {attempt: attempt + 1}
NextAttempt(attempt) == attempt + 1

\* Process Verdict: the guard and the CAS of the verdict's case; on pass the
\* complete that follows
StepVerdict(id, pass) ==
    /\ stepPc[id] = "auditing"
    /\ LET attempt == stateFile.active[id].attempt
           d1 == markEventProcessed(stateFile, VerdictKey(id, attempt))
       IN  IF ~VerdictActs(stateFile, id, attempt)
           THEN /\ stateFile' = d1
                /\ stepPc' = [stepPc EXCEPT ![id] = "end"]
           ELSE IF pass
           THEN /\ stateFile' = completeAndPurge(
                      transitionDispatch(d1, id, "auditing", "done", EmptyObj), id,
                      [tier |-> d1.active[id].tier, status |-> "done", completedAt |-> now])
                /\ stepPc' = [stepPc EXCEPT ![id] = "end"]
           ELSE IF CanRework(attempt, maxReworkAttempts)
           THEN /\ stateFile' = transitionDispatch(d1, id, "auditing", "working",
                      [attempt |-> NextAttempt(attempt), auditSessionKey |-> Absent])
                /\ stepPc' = [stepPc EXCEPT ![id] = "reworkSpawn"]
           ELSE /\ stateFile' = transitionDispatch(d1, id, "auditing", "stuck",
                      [stuckReason |-> "audit_failed_max_attempts"])
                /\ stepPc' = [stepPc EXCEPT ![id] = "end"]
    /\ UNCHANGED NotSteps

\* The rework's Spawn Worker: the session key of the new attempt is stored
\* and mapped.
StepReworkSpawn(id) ==
    /\ stepPc[id] = "reworkSpawn"
    /\ LET attempt == stateFile.active[id].attempt
       IN  stateFile' = registerSessionMapping(
               [stateFile EXCEPT !.active[id].workerSessionKey =
                                     SessionKey("worker", id, attempt)],
               SessionKey("worker", id, attempt), WorkerMapping(id, attempt))
    /\ stepPc' = [stepPc EXCEPT ![id] = "working"]
    /\ UNCHANGED NotSteps

PipelineStep(id) ==
    \/ StepSpawnCAS(id)
    \/ StepSpawnRegister(id)
    \/ \E reason \in {"watchdog_kill_2x"} : StepWorkerFails(id, reason)
    \/ StepAuditCAS(id)
    \/ StepAuditRegister(id)
    \/ \E pass \in BOOLEAN : StepVerdict(id, pass)
    \/ StepReworkSpawn(id)

NextSteps == \E id \in StepIds : PipelineStep(id)

SpecSteps == InitSteps /\ [][NextSteps]_vars

\* ------------------------------------------------------------------------
\* SpecReRegister: the stepwise pipelines, a dispatch whose pipeline has
\* ended being registered again under its identifier (/dispatch retry, or a
\* new dispatch of an issue completed before)
\* ------------------------------------------------------------------------

\* retry: removeActiveDispatch + registerDispatch with reset status fields
\* and a fresh timestamp, for a stuck dispatch; or registerDispatch of an
\* identifier that is no longer active. The new pipeline starts.
ReRegister(id) ==
    /\ stepPc[id] = "end"
    /\ id \in DOMAIN stateFile.active => stateFile.active[id].status = "stuck"
    /\ stateFile' = registerDispatch(removeActiveDispatch(stateFile, id), id,
                                     NewDispatch(id, now))
    /\ stepPc' = [stepPc EXCEPT ![id] = "start"]
    /\ UNCHANGED NotSteps

NextReRegister ==
    \/ NextSteps
    \/ \E id \in StepIds : ReRegister(id)

SpecReRegister == InitSteps /\ [][NextReRegister]_vars

\* ------------------------------------------------------------------------
\* SpecNotify: the stepwise pipelines with notify calls (notify.ts) whose
\* send succeeds, throws, or is answered with a non-ok response
\* ------------------------------------------------------------------------

\* How fetch ends: resolved with res.ok, rejected, resolved with !res.ok
SendOutcomes == {"ok", "throws", "nonOk"}

\* Mutant: the notifier without its try/catch
DiscordNotify_Rethrow(outcome) ==
    [threw |-> outcome = "throws", logged |-> outcome = "nonOk"]

\* The function createDiscordNotifier returns: the fetch inside try/catch,
\* console.error for a rejection and for a non-ok response
DiscordNotify(outcome) ==
    [threw |-> FALSE, logged |-> outcome # "ok"]

\* await notify(kind, payload) in the pipeline of dispatch id: an exception
\* would end the pipeline's handler there.
Notify(id, outcome) ==
    /\ stepPc[id] \in PipelinePcs
    /\ LET r == DiscordNotify(outcome)
       IN  /\ notifyLast' = [op |-> "notify", id |-> id, outcome |-> outcome,
                             threw |-> r.threw, logged |-> r.logged]
           /\ stepPc' = IF r.threw THEN [stepPc EXCEPT ![id] = "aborted"] ELSE stepPc
    /\ UNCHANGED <<stateFile, NotNotify>>

NextNotify ==
    \/ NextSteps
    \/ \E id \in StepIds, outcome \in SendOutcomes : Notify(id, outcome)

SpecNotify == InitSteps /\ [][NextNotify]_vars

\* ------------------------------------------------------------------------
\* SpecMonitor: the background monitor ticking beside the pipelines of two
\* dispatches. A tick reads the document, then runs its three duties, each
\* mutation a locked mutation of its own: stale detection, recovery, pruning.
\* ------------------------------------------------------------------------

\* Mutant: the filter keeping the dispatches younger than maxAgeMs
listStaleDispatches_Fresh(state, maxAgeMs, t) ==
    {id \in DOMAIN state.active : t - state.active[id].dispatchedAt < maxAgeMs}

\* The ids of the dispatches listStaleDispatches(state, maxAgeMs) returns at
\* Date.now() = t
listStaleDispatches(state, maxAgeMs, t) ==
    {id \in DOMAIN state.active : t - state.active[id].dispatchedAt > maxAgeMs}

\* Mutant: the filter without its test of the status
listRecoverableDispatches_AnyStatus(state) ==
    {id \in DOMAIN state.active :
        /\ state.active[id].workerSessionKey # Absent
        /\ state.active[id].auditSessionKey = Absent}

\* The ids of the dispatches listRecoverableDispatches(state) returns
listRecoverableDispatches(state) ==
    {id \in DOMAIN state.active :
        /\ state.active[id].status = "working"
        /\ state.active[id].workerSessionKey # Absent
        /\ state.active[id].auditSessionKey = Absent}

\* Mutant: the CAS expecting whatever status the dispatch has by now
ExpectedFrom_Current(read, current) == current

\* The expected-from of the stale CAS: the status the tick read
ExpectedFrom(read, current) == read

\* The instants the clock takes: B is registered at 1, A at 0, so that at
\* STALE_MAX_AGE_MS + 1 the age of A is past the threshold and that of B is
\* exactly the threshold. The pipeline of B was lost before it started (the
\* process restarted between register and Spawn Worker).
MonInstants == {1, STALE_MAX_AGE_MS + 1, STALE_MAX_AGE_MS + 2}

InitMonitor ==
    /\ stateFile = registerDispatch(
                       registerDispatch(emptyState, "A", NewDispatch("A", 0)),
                       "B", NewDispatch("B", 1))
    /\ now = 1
    /\ lastOp = [op |-> "init"]
    /\ lastCall = None
    /\ LockIdle
    /\ WdConstructed(DEFAULT_INACTIVITY_SEC * 1000)
    /\ DedupIdle
    /\ RunAgentIdle(FALSE)
    /\ stepPc = [id \in StepIds |-> IF id = "A" THEN "start" ELSE "lost"]
    /\ MonIdle
    /\ FaultsIdle
    /\ NotifyIdle
    /\ HydrateIdle
    /\ \E max \in 0..MaxRework : PipeIdle(max)

\* The tick starts: it reads the document (of which it uses the active
\* records) and lists the stale dispatches.
MonTick ==
    /\ monPc = "idle"
    /\ monSnap' = [emptyState EXCEPT !.active = stateFile.active]
    /\ monTodo' = listStaleDispatches(stateFile, STALE_MAX_AGE_MS, now)
    /\ monPc' = "stale"
    /\ monLast' = [op |-> "tick"]
    /\ UNCHANGED <<stateFile, now, notified, stepPc, NotMonitor>>

\* Stale detection of one listed dispatch: CAS read status -> stuck, then the
\* stuck notification; a TransitionError skips the dispatch.
MonSweep(id) ==
    /\ monPc = "stale"
    /\ id \in monTodo
    /\ LET read == monSnap.active[id].status
           current == IF id \in DOMAIN stateFile.active
                      THEN stateFile.active[id].status ELSE None
           from == ExpectedFrom(read, current)
           ok == TransitionFailure(stateFile, id, from, "stuck") = None
       IN  /\ stateFile' = transitionDispatch(stateFile, id, from, "stuck",
                                              [stuckReason |-> "stale_no_progress"])
           /\ notified' = IF ok THEN [notified EXCEPT ![id] = @ + 1] ELSE notified
           /\ monLast' = [op |-> "sweep", id |-> id, read |-> read, ok |-> ok]
    /\ monTodo' = monTodo \ {id}
    /\ UNCHANGED <<now, monPc, monSnap, stepPc, NotMonitor>>

\* Stale detection is through: the recoverable dispatches of the document
\* read are listed.
MonRecoverStart ==
    /\ monPc = "stale"
    /\ monTodo = {}
    /\ monTodo' = listRecoverableDispatches(monSnap)
    /\ monPc' = "recover"
    /\ monLast' = [op |-> "recoverStart"]
    /\ UNCHANGED <<stateFile, now, monSnap, notified, stepPc, NotMonitor>>

\* Recovery of one listed dispatch: Trigger Audit for the attempt read; when
\* its body runs, the dispatch has an audit session from here on.
MonRecover(id) ==
    /\ monPc = "recover"
    /\ id \in monTodo
    /\ LET attempt == monSnap.active[id].attempt
           starts == AuditStarts(stateFile, id, attempt)
       IN  /\ stateFile' = triggerAudit(stateFile, id, attempt)
           /\ stepPc' = IF starts THEN [stepPc EXCEPT ![id] = "auditing"] ELSE stepPc
           /\ monLast' = [op |-> "recover", id |-> id, starts |-> starts,
                          pcBefore |-> stepPc[id]]
    /\ monTodo' = monTodo \ {id}
    /\ UNCHANGED <<now, monPc, monSnap, notified, NotMonitor>>

\* Recovery is through: pruning, which ends the tick.
MonPrune ==
    /\ monPc = "recover"
    /\ monTodo = {}
    /\ stateFile' = pruneCompleted(stateFile, COMPLETED_MAX_AGE_MS, now)
    /\ monPc' = "idle"
    /\ monSnap' = emptyState
    /\ monLast' = [op |-> "prune"]
    /\ UNCHANGED <<now, monTodo, notified, stepPc, NotMonitor>>

\* The pipeline of a dispatch stops for good: the completion event of its
\* session is lost, or the process restarts in the middle of it.
PipelineLost(id) ==
    /\ stepPc[id] \in PipelinePcs
    /\ stepPc' = [stepPc EXCEPT ![id] = "lost"]
    /\ UNCHANGED <<stateFile, now, monVars, NotMonitor>>

MonAdvance ==
    /\ \E t \in MonInstants : t > now
    /\ now' = CHOOSE t \in MonInstants : t > now /\ \A u \in MonInstants : u > now => t <= u
    /\ UNCHANGED <<stateFile, stepPc, monVars, NotMonitor>>

MonitorStep ==
    \/ MonTick
    \/ \E id \in StepIds : MonSweep(id)
    \/ MonRecoverStart
    \/ \E id \in StepIds : MonRecover(id)
    \/ MonPrune

NextMonitor ==
    \/ MonitorStep
    \/ MonAdvance
    \/ \E id \in StepIds : PipelineLost(id)
    \/ NextSteps

SpecMonitor == InitMonitor /\ [][NextMonitor]_vars

\* The same under fair scheduling: the monitor keeps ticking, time passes,
\* and a pipeline that has not stopped takes its next step.
SpecMonitorFair ==
    /\ SpecMonitor
    /\ WF_vars(MonitorStep)
    /\ WF_vars(MonAdvance)
    /\ \A id \in StepIds : WF_vars(PipelineStep(id))

\* ------------------------------------------------------------------------
\* Claims on the store
\* ------------------------------------------------------------------------

\* C1: no issueIdentifier is a key of both dispatches.active and
\* dispatches.completed, in any state reachable by register, transition,
\* complete, removeActive, updateStatus and prune.
C1_ExclusivePresence ==
    DOMAIN stateFile.active \cap DOMAIN stateFile.completed = {}

\* C2: every change of the status of an active record, from one state to
\* the next, is an edge of the state graph.
C2_LegalTransitionsOnly ==
    [][\A id \in Ids :
          ( /\ id \in DOMAIN stateFile.active
            /\ id \in DOMAIN stateFile'.active
            /\ stateFile.active[id].status # stateFile'.active[id].status )
          => <<stateFile.active[id].status, stateFile'.active[id].status>>
                \in ValidTransitions]_vars

\* The record transition must leave: status = to, the fields of the patch
\* overwritten, every other field kept.
Patched(d, to, patch) ==
    [f \in DOMAIN d |->
        IF f \in DOMAIN patch THEN patch[f]
        ELSE IF f = "status" THEN to
        ELSE d[f]]

\* C3: a transition call fails with TransitionError and leaves the whole
\* document unchanged when the record is missing, its status differs from
\* expectedFrom or (expectedFrom, to) is no legal edge; otherwise it sets the
\* status to `to` and applies the patch fields, changing nothing else.
C3_TransitionCAS ==
    [][lastOp'.op = "transition" =>
        LET c == lastCall'
            refused == \/ c.id \notin DOMAIN stateFile.active
                       \/ stateFile.active[c.id].status # c.from
                       \/ <<c.from, c.to>> \notin ValidTransitions
        IN IF refused
           THEN /\ lastOp'.err = "TransitionError"
                /\ stateFile' = stateFile
           ELSE /\ lastOp'.err = None
                /\ stateFile' = [stateFile EXCEPT !.active[c.id] =
                                    Patched(@, c.to, c.patch)]
      ]_vars

\* C3 witness: a rework CAS (auditing -> working) that applied its attempt
\* patch is followed by a refused call on the same record.
C3_Witness ==
    /\ lastOp.op = "transition"
    /\ lastOp.err = "TransitionError"
    /\ "A" \in DOMAIN stateFile.active
    /\ stateFile.active["A"].attempt = 1
    /\ stateFile.active["A"].status = "working"
    /\ lastCall.from = "auditing"

\* ------------------------------------------------------------------------
\* Claims on the lock protocol (SpecLock)
\* ------------------------------------------------------------------------

\* The processes whose operation returned without an exception
Returned == {p \in Procs : pc[p] = "done" /\ opResult[p] = "ok"}

\* C4: when the concurrent registerDispatch calls of all processes have
\* returned normally, the persisted document is the result of applying their
\* mutations one after the other in some order; registrations of different
\* identifiers commute, so every serial order yields the document whose
\* active map holds every process's identifier: no update is lost.
C4_NoLostUpdate ==
    Returned = Procs =>
        DOMAIN stateFile.active = {ProcId[p] : p \in Procs}

\* C5: at any instant at most one process is between a successful
\* acquireLock and its releaseLock, stale-lock removal and the forced
\* removal at the acquisition deadline included.
C5_MutualExclusion ==
    Cardinality({p \in Procs : pc[p] \in Holding}) <= 1

\* ------------------------------------------------------------------------
\* Claims on the watchdog (SpecWatchdog)
\* ------------------------------------------------------------------------

\* C9: under any sequence of start(), tick(), stop() and timer callbacks,
\* repeated start(), start() after stop() and a throwing or rejecting onKill
\* included, onKill is invoked at most once, wasKilled never goes from true
\* back to false, and onKill is invoked only in a step that sets wasKilled.
C9_SingleShot ==
    [][ /\ killCount' <= 1
        /\ (killed => killed')
        /\ (killCount' # killCount => ~killed /\ killed') ]_vars

\* C9 witness: onKill threw, the watchdog was stopped and started again, and
\* the callback of the new timeout ran without a second kill.
C9_Witness ==
    /\ killCount = 1
    /\ killed
    /\ threw
    /\ started
    /\ wdLast = [op |-> "fire", kill |-> FALSE]

\* C10: onKill is invoked only by a timer callback that finds
\* now - lastActivityAt >= inactivityMs, a callback that finds less invokes
\* nothing, and a started watchdog that was never silent for inactivityMs
\* is not killed.
C10_KillOnlyAtThreshold ==
    [][ /\ (killCount' # killCount =>
               /\ wdLast'.op = "fire"
               /\ now - lastActivityAt >= inactivityMs
               /\ ~ticksInTime)
        /\ (wdLast'.op = "fire" /\ now - lastActivityAt < inactivityMs =>
               killCount' = killCount /\ killed' = killed) ]_vars

\* C10 witness: a tick() 1 ms before the threshold, then the callback at the
\* threshold: no kill, the check is scheduled again.
C10_Witness ==
    /\ wdLast = [op |-> "fire", kill |-> FALSE]
    /\ started
    /\ ~killed
    /\ killCount = 0
    /\ inactivityMs > MIN_CHECK_MS
    /\ lastActivityAt = prevActivityAt + inactivityMs - 1
    /\ now = prevActivityAt + inactivityMs
    /\ timer = <<lastActivityAt + inactivityMs>>

\* ------------------------------------------------------------------------
\* Claims on event deduplication (SpecDedup)
\* ------------------------------------------------------------------------

\* C6: over the whole lifetime of the store, at most one call
\* markEventProcessed(e) returns true, whatever other keys are marked between.
C6_AtMostOneTrue == trueCount <= 1

\* C6 as the model has it: markEventProcessed(e) returns true exactly when e
\* is not among the recorded keys, and after it has returned true it returns
\* true again only when MAX_PROCESSED_EVENTS or more other new keys have
\* been recorded since (which evicted e).
C6_OneTruePerWindow ==
    [][ dedupLast' # dedupLast \/ stateFile' # stateFile =>
          /\ dedupLast'.ret = (dedupLast'.key \notin Range(stateFile.processedEvents))
          /\ (dedupLast'.key = TrackedKey /\ dedupLast'.ret =>
                 sinceTrue = -1 \/ sinceTrue >= MAX_PROCESSED_EVENTS) ]_vars

\* C6 witness: the tracked key was recorded, MAX_PROCESSED_EVENTS other keys
\* evicted it, and it was reported new a second time.
C6_Witness ==
    /\ trueCount = 2
    /\ dedupLast = [key |-> TrackedKey, ret |-> TRUE]
    /\ Len(stateFile.processedEvents) = MAX_PROCESSED_EVENTS

\* ------------------------------------------------------------------------
\* Claims on the pipeline (SpecPipeline)
\* ------------------------------------------------------------------------

IsDone(data, id) ==
    \/ id \in DOMAIN data.completed /\ data.completed[id].status = "done"
    \/ id \in DOMAIN data.active /\ data.active[id].status = "done"

\* C7: a dispatch becomes done only in a Process Verdict step on an
\* auditor's output with pass = true, taken from status auditing for the
\* current attempt; nothing a worker outputs and no worker completion, direct
\* or through the hook, makes it done or lets it pass by the audit.
C7_DoneOnlyByPassingVerdict ==
    [][ \A id \in PipeIds :
          ~IsDone(stateFile, id) /\ IsDone(stateFile', id) =>
              /\ pipeLast'.op = "processVerdict"
              /\ pipeLast'.pass
              /\ pipeLast'.origin = "audit"
              /\ id \in DOMAIN stateFile.active
              /\ stateFile.active[id].status = "auditing"
              /\ pipeLast'.attempt = stateFile.active[id].attempt ]_vars

\* C7 witness: every worker ended with an output that reads as a passing
\* verdict, each completion was delivered, the first audit failed, and the
\* dispatch is done by the passing verdict of the second audit.
C7_Witness ==
    /\ IsDone(stateFile, "A")
    /\ pipeLast.op = "processVerdict"
    /\ pipeLast.origin = "audit"
    /\ pipeLast.attempt = 1
    /\ reworks = 1
    /\ \A a \in {0, 1} :
          [run |-> Run("worker", "A", a), outcome |-> "ok", output |-> "pass",
           via |-> "hook"] \in events
    /\ \A e \in events : e.via = "hook"

\* C8: the number of auditing -> working transitions a dispatch takes never
\* exceeds maxReworkAttempts, and once more fail verdicts were acted on than
\* that (two with maxReworkAttempts = 1), the dispatch is stuck with
\* stuckReason audit_failed_max_attempts.
C8_RetryCeiling ==
    /\ reworks <= maxReworkAttempts
    /\ failVerdicts > maxReworkAttempts =>
          /\ "A" \in DOMAIN stateFile.active
          /\ stateFile.active["A"].status = "stuck"
          /\ stateFile.active["A"].stuckReason = "audit_failed_max_attempts"

\* C8 witness: maxReworkAttempts = 1, two fail verdicts, one rework, stuck.
C8_Witness ==
    /\ maxReworkAttempts = 1
    /\ failVerdicts = 2
    /\ reworks = 1
    /\ "A" \in DOMAIN stateFile.active
    /\ stateFile.active["A"].status = "stuck"
    /\ stateFile.active["A"].attempt = 1

\* ------------------------------------------------------------------------
\* Claims on runAgent (SpecRunAgent)
\* ------------------------------------------------------------------------

\* C11: runAgent makes at most two runs; it makes a second one exactly when
\* the first returned success = false with watchdogKilled = true, and it
\* returns the result of the last run it made, unchanged.
C11_RetryOnlyOnWatchdogKill ==
    /\ Len(raRuns) <= 2
    /\ Len(raRuns) = 2 => ~raRuns[1].success /\ raRuns[1].watchdogKilled = "true"
    /\ raReturned # Absent =>
          /\ raRuns # <<>>
          /\ raReturned[1] = raRuns[Len(raRuns)]
          /\ Len(raRuns) = 1 =>
                raRuns[1].success \/ raRuns[1].watchdogKilled # "true"

\* C11 witness: two runs, both killed by the watchdog; the second result is
\* returned with watchdogKilled = true.
C11_Witness ==
    /\ Len(raRuns) = 2
    /\ raReturned # Absent
    /\ ~raReturned[1].success
    /\ raReturned[1].watchdogKilled = "true"
    /\ raRuns[1].output = "partial"
    /\ raReturned[1].output = "full"

\* ------------------------------------------------------------------------
\* Claims on the stepwise pipeline (SpecSteps)
\* ------------------------------------------------------------------------

\* Session key k of dispatch id is mapped to id and to the dispatch's attempt.
KeyMapped(data, id, k) ==
    k # Absent =>
        /\ k \in DOMAIN data.sessionMap
        /\ data.sessionMap[k].dispatchId = id
        /\ data.sessionMap[k].attempt = data.active[id].attempt

\* C12: in every reachable state, the states between the steps of Spawn
\* Worker, Trigger Audit and rework included, the workerSessionKey and the
\* auditSessionKey of every active dispatch have a sessionMap entry with the
\* dispatch's identifier and its current attempt.
C12_SessionMapConsistency ==
    \A id \in DOMAIN stateFile.active :
        /\ KeyMapped(stateFile, id, stateFile.active[id].workerSessionKey)
        /\ KeyMapped(stateFile, id, stateFile.active[id].auditSessionKey)

\* C13: processedEvents never holds more than MAX_PROCESSED_EVENTS entries;
\* an append to a full FIFO removes the oldest entry and only that one, and
\* the entries that stay keep their order.
C13_FifoBound ==
    /\ [](Len(stateFile.processedEvents) <= MAX_PROCESSED_EVENTS)
    /\ [][ (dedupLast'.ret /\ dedupVars' # dedupVars)
              \/ stateFile'.processedEvents # stateFile.processedEvents =>
             stateFile'.processedEvents =
                IF Len(stateFile.processedEvents) < MAX_PROCESSED_EVENTS
                THEN Append(stateFile.processedEvents, dedupLast'.key)
                ELSE Append(Tail(stateFile.processedEvents), dedupLast'.key) ]_vars

\* C13 witness: the FIFO is full and its two oldest entries were evicted,
\* one by each of the last two appends.
C13_Witness ==
    /\ Len(stateFile.processedEvents) = MAX_PROCESSED_EVENTS
    /\ Head(stateFile.processedEvents) = 2
    /\ stateFile.processedEvents[MAX_PROCESSED_EVENTS] = MAX_PROCESSED_EVENTS + 1
    /\ dedupLast = [key |-> MAX_PROCESSED_EVENTS + 1, ret |-> TRUE]

WorkerHandled(r, outcome) ==
    /\ r.phase = "worker"
    /\ [run |-> r, outcome |-> outcome, output |-> "fail", via |-> "hook"] \in events
    /\ [run |-> r, outcome |-> outcome, output |-> "fail", via |-> "direct"] \notin events

\* C16: once Spawn Worker has taken up a worker run that returned
\* success = false, the dispatch is stuck, with stuckReason watchdog_kill_2x
\* when the run was killed by the watchdog and worker_failed otherwise, and
\* no audit was triggered for that attempt.
C16_WorkerFailureEscalates ==
    \A id \in PipeIds, a \in 0..(MaxRework + 1), outcome \in {"failed", "watchdogKilled"} :
        WorkerHandled(Run("worker", id, a), outcome) =>
            /\ Count(bodyCount, <<"audit", id, a>>) = 0
            /\ id \in DOMAIN stateFile.active
            /\ stateFile.active[id].status = "stuck"
            /\ stateFile.active[id].stuckReason =
                  IF outcome = "watchdogKilled" THEN "watchdog_kill_2x" ELSE "worker_failed"

\* The hook's three conditions on the document, for session key k
HookConditions(data, k) ==
    /\ k \in DOMAIN data.sessionMap
    /\ data.sessionMap[k].dispatchId \in DOMAIN data.active
    /\ data.active[data.sessionMap[k].dispatchId].attempt = data.sessionMap[k].attempt

\* C17: the agent_end hook calls Trigger Audit or Process Verdict only for a
\* session key that is mapped, whose dispatch is active and whose mapping
\* has the dispatch's attempt; otherwise it calls nothing and changes no
\* state. When it calls, it is Trigger Audit for phase worker and Process
\* Verdict for phase audit.
C17_HookGuards ==
    [][ /\ pipeLast'.op = "hookIgnored" =>
              /\ stateFile' = stateFile
              /\ runs' = runs
              /\ events' = events
              /\ bodyCount' = bodyCount
        /\ (pipeLast'.op \in {"triggerAudit", "processVerdict"} /\ pipeLast'.via = "hook") =>
              /\ HookConditions(stateFile, pipeLast'.key)
              /\ pipeLast'.op =
                    IF stateFile.sessionMap[pipeLast'.key].phase = "worker"
                    THEN "triggerAudit" ELSE "processVerdict"
              /\ stateFile.sessionMap[pipeLast'.key].phase \in {"worker", "audit"}
      ]_vars

\* C17 witness: the completion of the attempt-0 worker arrived through the
\* hook while the dispatch was working on attempt 1; its mapping is there,
\* the attempts differ, and the hook ignored it.
C17_Witness ==
    /\ pipeLast = [op |-> "hookIgnored", key |-> SessionKey("worker", "A", 0)]
    /\ SessionKey("worker", "A", 0) \in DOMAIN stateFile.sessionMap
    /\ "A" \in DOMAIN stateFile.active
    /\ stateFile.active["A"].attempt = 1
    /\ stateFile.active["A"].status = "working"

\* ------------------------------------------------------------------------
\* Claims on the monitor
\* ------------------------------------------------------------------------

NonTerminal == {"dispatched", "working", "auditing"}

\* A monitor tick starts: the dispatches it lists for stale detection are the
\* active ones older than the threshold, each with the status it has now.
TickListsStale ==
    (monPc = "idle" /\ monPc' = "stale") =>
        /\ monTodo' = {id \in DOMAIN stateFile.active :
                          now - stateFile.active[id].dispatchedAt > STALE_MAX_AGE_MS}
        /\ \A id \in monTodo' : monSnap'.active[id].status = stateFile.active[id].status

\* The stale detection handles every dispatch it listed before the tick
\* goes on.
SweepsAllListed == (monPc = "stale" /\ monPc' # "stale") => monTodo = {}

\* A stale-detection step handling dispatch id, whose status was in
\* movable when the tick read it: if the dispatch still has the status
\* read, it becomes stuck with stale_no_progress and one stuck notification
\* is sent; if not, nothing is written and nothing is sent.
SweepEffect(movable) ==
    (monPc = "stale" /\ monPc' = "stale" /\ monTodo' # monTodo) =>
        LET id == CHOOSE i \in monTodo : i \notin monTodo'
            read == monSnap.active[id].status
        IN  read \in movable =>
              IF id \in DOMAIN stateFile.active /\ stateFile.active[id].status = read
              THEN /\ stateFile'.active[id].status = "stuck"
                   /\ stateFile'.active[id].stuckReason = "stale_no_progress"
                   /\ notified' = [notified EXCEPT ![id] = @ + 1]
                   /\ stateFile' = [stateFile EXCEPT !.active[id] = stateFile'.active[id]]
              ELSE /\ stateFile' = stateFile
                   /\ notified' = notified

\* C18: on a monitor tick every active dispatch older than the stale
\* threshold is moved to stuck with stuckReason stale_no_progress and a stuck
\* notification, by a CAS expecting the status the tick read; a dispatch
\* whose status changed since is skipped and keeps its status. As stated,
\* for whatever status the tick read.
C18_StaleSweep ==
    [][TickListsStale /\ SweepsAllListed /\ SweepEffect(Statuses)]_vars

\* C18 for the dispatches the tick read in dispatched, working or auditing
C18_StaleSweepNonTerminal ==
    [][TickListsStale /\ SweepsAllListed /\ SweepEffect(NonTerminal)]_vars

\* C18: the tick read A as working, a transition moved it to auditing, and
\* the stale CAS failed and left it auditing, while B, unchanged since the
\* tick read it, is stuck with stale_no_progress and notified once.
C18_Witness ==
    /\ monLast = [op |-> "sweep", id |-> "A", read |-> "working", ok |-> FALSE]
    /\ "A" \in DOMAIN stateFile.active
    /\ stateFile.active["A"].status = "auditing"
    /\ notified["A"] = 0
    /\ stateFile.active["B"].status = "stuck"
    /\ stateFile.active["B"].stuckReason = "stale_no_progress"
    /\ notified["B"] = 1

InFlight(id) ==
    /\ id \in DOMAIN stateFile.active
    /\ stateFile.active[id].status \in NonTerminal

\* C19: under fair scheduling of the pipeline steps and of the monitor
\* tick, every dispatch in active in status dispatched, working or auditing
\* eventually leaves these statuses (completed as done, stuck, or removed),
\* also when its pipeline stopped on a lost completion event or a restart.
C19_EventuallyLeavesFlight ==
    \A id \in StepIds : InFlight(id) ~> ~InFlight(id)

\* C19: the pipeline of A stopped while A was auditing, that of B before
\* it started, and the monitor has moved both to stuck.
C19_Witness ==
    /\ stepPc = [id \in StepIds |-> "lost"]
    /\ \A id \in StepIds :
          /\ id \in DOMAIN stateFile.active
          /\ stateFile.active[id].status = "stuck"
          /\ stateFile.active[id].stuckReason = "stale_no_progress"
    /\ stateFile.active["A"].auditSessionKey # Absent

\* ------------------------------------------------------------------------
\* Claims on register
\* ------------------------------------------------------------------------

\* C20: a register call either fails and leaves the document unchanged, or
\* succeeds for an identifier that was not in active and stores its record
\* with status dispatched and attempt 0, changing nothing else; it never
\* succeeds for an identifier that is in active.
C20_RegisterFailsWhenActive ==
    [][ (lastOp'.op = "register" /\ <<lastOp, stateFile>>' # <<lastOp, stateFile>>) =>
          \/ /\ lastOp'.err # None
             /\ stateFile' = stateFile
          \/ /\ lastOp'.err = None
             /\ \E id \in Ids \ DOMAIN stateFile.active :
                   /\ id \in DOMAIN stateFile'.active
                   /\ stateFile'.active[id].status = "dispatched"
                   /\ stateFile'.active[id].attempt = 0
                   /\ stateFile' = [stateFile EXCEPT
                                       !.active = Put(@, id, stateFile'.active[id])]
      ]_vars

\* ------------------------------------------------------------------------
\* Claims on leaving active
\* ------------------------------------------------------------------------

\* C21: when a record leaves active (complete or removeActive), afterwards
\* no sessionMap entry has its identifier as dispatchId; complete creates
\* the completed record with the tier of the active record.
C21_LeavingPurgesSessions ==
    [][ \A id \in Ids :
          (id \in DOMAIN stateFile.active /\ id \notin DOMAIN stateFile'.active) =>
              /\ \A k \in DOMAIN stateFile'.sessionMap :
                    stateFile'.sessionMap[k].dispatchId # id
              /\ lastOp'.op = "complete" =>
                    /\ id \in DOMAIN stateFile'.completed
                    /\ stateFile'.completed[id].tier = stateFile.active[id].tier
      ]_vars

\* ------------------------------------------------------------------------
\* Claims on failing store operations (SpecFaults)
\* ------------------------------------------------------------------------

FileNow == [kind |-> fileKind, doc |-> stateFile]

\* C22: an operation called on a state file that cannot be parsed, or whose
\* mutation throws, ends with that error at the caller, and from its call
\* to its end the state file is what it was when the operation was called.
C22_FailedOpLeavesFile ==
    /\ (curOp.op # "none" /\ fileBefore.kind \in {"corrupt", "misshapen"}) =>
          FileNow = fileBefore
    /\ pc[FaultProc] = "done" =>
          /\ fileBefore.kind = "corrupt" => opResult[FaultProc] = "SyntaxError"
          /\ fileBefore.kind = "misshapen" => opResult[FaultProc] = "TypeError"
          /\ opResult[FaultProc] \in {"SyntaxError", "TypeError"} => FileNow = fileBefore

\* C22: a register called on an unparseable state file has thrown.
C22_Witness ==
    /\ pc[FaultProc] = "done"
    /\ curOp.op = "register"
    /\ opResult[FaultProc] = "SyntaxError"
    /\ fileKind = "corrupt"

\* C23: once an operation has returned or thrown, the lock file it created
\* is gone, and the next operation acquires the lock at its first attempt.
C23_LockReleasedOnEveryExit ==
    /\ pc[FaultProc] \in {"done", "idle", "tryCreate"} => lockFile = Absent
    /\ pc[FaultProc] = "readLock" => FALSE

\* C23: a pruneCompleted whose write failed has thrown, and no lock file is
\* left.
C23_Witness ==
    /\ pc[FaultProc] = "done"
    /\ curOp.op = "prune"
    /\ opResult[FaultProc] = "EIO"
    /\ lockFile = Absent

\* ------------------------------------------------------------------------
\* Claims on acquireLock (SpecLockFair)
\* ------------------------------------------------------------------------

\* The pcs inside acquireLock
Acquiring == {"tryCreate", "readLock", "unlinkStale", "sleep", "forceUnlink", "forceCreate"}

\* C24: acquireLock terminates; it ends either with the lock file written
\* by the caller at that instant or by throwing EEXIST; a lock file is
\* removed as stale only after a read that found it more than 30 s old; and
\* the loop is left for the forced removal exactly when the deadline has
\* elapsed.
C24_AcquireTerminates ==
    /\ \A p \in Procs : (pc[p] \in Acquiring) ~> (pc[p] \notin Acquiring)
    /\ [][ \A p \in Procs :
             /\ (pc[p] \in Acquiring /\ pc'[p] \notin Acquiring) =>
                   \/ pc'[p] = "read" /\ lockFile' = <<now>>
                   \/ pc'[p] = "done" /\ opResult'[p] = "EEXIST"
             /\ (pc[p] = "readLock" /\ pc'[p] = "unlinkStale") =>
                   (lockFile # Absent /\ now - lockFile[1] > LOCK_STALE_MS)
             /\ (pc[p] \in {"sleep", "unlinkStale"} /\ pc'[p] # pc[p]) =>
                   (pc'[p] = "forceUnlink" <=> now >= deadline[p])
             /\ (pc[p] = "forceCreate" /\ pc'[p] = "read") => now >= deadline[p]
         ]_vars

\* C24: p1 called at 0, found the lock file a dead holder had written at 0,
\* waited until its deadline, force-removed the lock and wrote its own.
C24_Witness ==
    /\ pc["p1"] = "read"
    /\ lockFile = <<LOCK_TIMEOUT_MS>>
    /\ deadline["p1"] = LOCK_TIMEOUT_MS
    /\ pc["p2"] = "idle"

\* ------------------------------------------------------------------------
\* Claims on the notifier (SpecNotify)
\* ------------------------------------------------------------------------

\* C25: a notify call whose send throws or is answered non-ok resolves
\* without throwing, and leaves the dispatch state and the position of every
\* pipeline as a successful notify call leaves them: unchanged.
C25_NotifyFailureSwallowed ==
    [][ notifyLast' # notifyLast =>
          /\ notifyLast'.threw = FALSE
          /\ stateFile' = stateFile
          /\ stepPc' = stepPc ]_vars

\* C25: a notify whose fetch was rejected, in the pipeline of A while A was
\* auditing; the pipeline stands where it stood.
C25_Witness ==
    /\ notifyLast.op = "notify"
    /\ notifyLast.id = "A"
    /\ notifyLast.outcome = "throws"
    /\ notifyLast.logged
    /\ stepPc["A"] = "auditing"
    /\ stateFile.active["A"].status = "auditing"

\* ------------------------------------------------------------------------
\* Claims on escalation (SpecPipeline)
\* ------------------------------------------------------------------------

C27_PruneDeletesExactlyOld ==
    [][ (lastOp'.op = "prune" /\ (lastOp' # lastOp \/ stateFile' # stateFile)) =>
          LET old == {k \in DOMAIN stateFile.completed :
                        now - stateFile.completed[k].completedAt > lastOp'.maxAgeMs}
          IN  /\ DOMAIN stateFile'.completed = DOMAIN stateFile.completed \ old
              /\ \A k \in DOMAIN stateFile'.completed :
                    stateFile'.completed[k] = stateFile.completed[k]
              /\ lastOp'.ret = Cardinality(old)
              /\ stateFile'.active = stateFile.active
              /\ stateFile'.sessionMap = stateFile.sessionMap
              /\ stateFile'.processedEvents = stateFile.processedEvents ]_vars

\* C27: a pruneCompleted(0) at instant 1 has deleted one record and returned
\* 1; the record completed at instant 1 is still there, beside an active
\* record and a session mapping.
C27_Witness ==
    /\ lastOp.op = "prune"
    /\ lastOp.maxAgeMs = 0
    /\ lastOp.ret = 1
    /\ now = 1
    /\ DOMAIN stateFile.completed = {"B"}
    /\ stateFile.completed["B"].completedAt = 1
    /\ "A" \in DOMAIN stateFile.active
    /\ stateFile.sessionMap # EmptyObj

\* ------------------------------------------------------------------------
\* Claims on stop() (SpecWatchdog)
\* ------------------------------------------------------------------------

\* C28 as stated: once stop() has been called, no step schedules a check or
\* kills: tick() and start() are no-ops.
C28_StoppedStaysInert ==
    [][ wdStop.stopped =>
          /\ pending' = pending
          /\ killCount' = killCount
          /\ killed' = killed ]_vars

\* C28: stop() leaves no check pending; while the watchdog is stopped no
\* step invokes onKill or changes wasKilled, and tick() schedules nothing;
\* start() after stop() arms the watchdog again: it records the activity
\* time and schedules one check.
C28_StopCancelsStartRearms ==
    [][ /\ (wdStop'.stopped => pending' = {} /\ ~started')
        /\ (wdStop.stopped => killCount' = killCount /\ killed' = killed)
        /\ (wdStop.stopped /\ ~wdStop'.stopped =>
               /\ started'
               /\ lastActivityAt' = now
               /\ pending' = {now + Max(MIN_CHECK_MS, inactivityMs)}) ]_vars

\* C28: stop() cleared a timeout; its due time has passed with the silence
\* at the threshold, and there was no kill.
C28_Witness ==
    /\ wdStop.stopped
    /\ wdStop.cleared # Absent
    /\ now >= wdStop.cleared[1]
    /\ now - lastActivityAt >= inactivityMs
    /\ pending = {}
    /\ ~killed
    /\ killCount = 0

\* ------------------------------------------------------------------------
\* Claims on the retry after a watchdog kill (SpecRetry)
\* ------------------------------------------------------------------------

\* C29: a run's result has watchdogKilled exactly when onKill was invoked
\* during that run; when the first run was killed and the second ended
\* without a kill and without an error, runAgent returns success = true
\* without watchdogKilled; and the retry activity has been emitted once the
\* first run is given up and before the second begins.
C29_RetrySucceedsAfterKill ==
    /\ \A i \in 1..Len(raRuns) :
          Truthy(raRuns[i].result.watchdogKilled) <=> raRuns[i].fired
    /\ (Len(raRuns) = 2 /\ raReturned # Absent /\ raRuns[1].fired /\ ~raRuns[2].fired
          /\ raRuns[2].result.success) =>
            /\ raReturned[1].success
            /\ raReturned[1].watchdogKilled = "undefined"
    /\ raActivities = (IF raAttempt = 1 THEN 1 ELSE 0)
    /\ (Len(raRuns) = 2 \/ (rePc # "idle" /\ Len(raRuns) = 1 /\ raReturned = Absent)) =>
            raAttempt = 1

\* C29: the first run was killed by its watchdog, the retry received ticks,
\* was not killed and succeeded; runAgent has returned the retry's result.
C29_Witness ==
    /\ Len(raRuns) = 2
    /\ raRuns[1].fired
    /\ Truthy(raRuns[1].result.watchdogKilled)
    /\ ~raRuns[2].fired
    /\ ~killed
    /\ lastActivityAt > prevActivityAt
    /\ raReturned = <<[success |-> TRUE, watchdogKilled |-> "undefined", output |-> "full"]>>
    /\ raActivities = 1

\* ------------------------------------------------------------------------
\* Claims on hydration (SpecHydrate)
\* ------------------------------------------------------------------------

\* C30: after hydrateFromDispatchState, the in-memory sessions are those of
\* exactly the active dispatches whose status is dispatched or working, and
\* the value returned is their number.
C30_HydrateRestoresDispatchedOrWorking ==
    restored # Absent =>
        LET live == {id \in DOMAIN stateFile.active :
                        stateFile.active[id].status \in {"dispatched", "working"}}
        IN  /\ DOMAIN sessions = {stateFile.active[id].issueId : id \in live}
            /\ restored[1] = Cardinality(live)

\* ------------------------------------------------------------------------
\* Claims on the attempt counter (SpecMonitor)
\* ------------------------------------------------------------------------

C32_ReaderSeesBeforeOrAfter ==
    lastOp.op = "read" =>
        /\ lastOp.kind = "document"
        /\ lastOp.saw # Torn
        /\ lastOp.during => lastOp.saw \in {lastOp.before, lastOp.after}

\* C32: a register was writing its tmp file, half of it down, when the
\* reader read the state file and found the document from before.
C32_Witness ==
    /\ lastOp.op = "read"
    /\ lastOp.during
    /\ pc[FaultProc] = "writeRest"
    /\ tmpFile = <<Torn>>
    /\ curOp.op = "register"
    /\ lastOp.saw = lastOp.before
    /\ lastOp.after # lastOp.before

\* ------------------------------------------------------------------------
\* Claims on concurrent markEventProcessed (SpecLockDedup)
\* ------------------------------------------------------------------------

\* C33: when the concurrent markEventProcessed(e) calls of two processes,
\* for a key e not yet recorded, have both returned, exactly one of them
\* has returned true and e is once in processedEvents.
C33_ExactlyOneTrue ==
    Returned = Procs =>
        /\ trueCount = 1
        /\ Cardinality({i \in DOMAIN stateFile.processedEvents :
                            stateFile.processedEvents[i] = TrackedKey}) = 1

\* ------------------------------------------------------------------------
\* Claims on the monitor's recovery (SpecMonitor)
\* ------------------------------------------------------------------------

\* C34: the recovery of a tick takes up exactly the dispatches the tick read
\* as working with a workerSessionKey and no auditSessionKey; it invokes
\* Trigger Audit for those only and for all of them before the tick ends;
\* an invocation stopped by its guard or its CAS changes no dispatch and no
\* mapping, and the tick goes on.
C34_RecoveryExactlyMissedAudits ==
    [][ LET missed == {id \in DOMAIN monSnap.active :
                          /\ monSnap.active[id].status = "working"
                          /\ monSnap.active[id].workerSessionKey # Absent
                          /\ monSnap.active[id].auditSessionKey = Absent}
        IN  /\ (monPc = "stale" /\ monPc' = "recover") => monTodo' = missed
            /\ (monPc = "recover" /\ monPc' = "recover" /\ monTodo' # monTodo) =>
                  /\ monLast'.op = "recover"
                  /\ monLast'.id \in missed
                  /\ monTodo' = monTodo \ {monLast'.id}
                  /\ ~monLast'.starts =>
                        /\ stateFile'.active = stateFile.active
                        /\ stateFile'.completed = stateFile.completed
                        /\ stateFile'.sessionMap = stateFile.sessionMap
                  /\ monLast'.starts =>
                        stateFile'.active[monLast'.id].status = "auditing"
            /\ (monPc = "recover" /\ monPc' = "idle") => monTodo = {} ]_vars

\* C34: Trigger Audit was invoked for a dispatch the tick had read as
\* working; by then its own pipeline had moved it to auditing, and it is
\* left there.
C34_Witness ==
    /\ monLast.op = "recover"
    /\ ~monLast.starts
    /\ monLast.id = "A"
    /\ monLast.pcBefore = "auditRegister"
    /\ "A" \in DOMAIN stateFile.active
    /\ stateFile.active["A"].status = "auditing"

\* The pipeline positions at which the worker run of the current attempt has
\* not finished: Spawn Worker has stored the session key and the run is to
\* be started or is executing (its completion, when it comes, is the step
\* from "working" to Trigger Audit).
WorkerRunning == {"spawnRegister", "working", "reworkSpawn"}

\* C35: the recovery of a monitor tick starts an audit (moves the dispatch to
\* auditing) only for a dispatch whose worker run is over, never for one
\* whose worker run is still executing.
C35_AuditOnlyAfterWorker ==
    (monLast.op = "recover" /\ monLast.starts) => monLast.pcBefore \notin WorkerRunning

\* ------------------------------------------------------------------------
\* Claims on registering an identifier again (SpecReRegister)
\* ------------------------------------------------------------------------

\* C36: for a dispatch registered again under an identifier used before, as
\* for a first one, a pipeline that ends at Trigger Audit or at Process
\* Verdict has acted on the dispatch (the audit was started, the worker's
\* failure or the verdict was recorded): neither step is stopped by the
\* idempotency key of the earlier dispatch.
C36_ReRegisteredRunsAuditAndVerdict ==
    [][ \A id \in StepIds :
          (stepPc[id] \in {"working", "auditing"} /\ stepPc'[id] = "end") =>
              \/ stateFile'.active # stateFile.active
              \/ stateFile'.completed # stateFile.completed ]_vars

\* ------------------------------------------------------------------------
\* Claims on the embedded run's watchdog (SpecRetry)
\* ------------------------------------------------------------------------

\* C37: when runEmbedded ends, by returning or by throwing, its watchdog is
\* stopped and has no timeout left, and onKill is invoked only while the
\* embedded run is in progress.
C37_WatchdogStoppedWhenEmbeddedEnds ==
    [][ /\ (rePc = "embedded" /\ rePc' # "embedded") => (~started' /\ pending' = {})
        /\ killCount' > killCount => rePc = "embedded" ]_vars

\* ------------------------------------------------------------------------
\* Claims on releaseLock (SpecLock)
\* ------------------------------------------------------------------------

\* C38: the releaseLock of a process leaves a lock file that this process
\* did not create as it is.
C38_ReleaseOwnLockOnly ==
    [][ \A p \in Procs :
          ( /\ pc[p] = "release"
            /\ pc'[p] = "done"
            /\ lockFile # Absent
            /\ lockOwner # p )
          => lockFile' = lockFile ]_vars

\* ------------------------------------------------------------------------
\* Claims on the kill deadline (SpecWatchdogPunctual)
\* ------------------------------------------------------------------------

C40_StuckOnceNotifiedOnce ==
    [][ \A id \in StepIds :
          /\ notified'[id] <= 1
          /\ (id \in DOMAIN stateFile.active /\ stateFile.active[id].status = "stuck") =>
                /\ notified'[id] = notified[id]
                /\ id \in DOMAIN stateFile'.active
                /\ stateFile'.active[id].status = "stuck"
                /\ stateFile'.active[id].stuckReason = stateFile.active[id].stuckReason ]_vars

\* C40: a later tick listed the dispatch the sweep had made stuck and
\* notified, its CAS from stuck failed, and the count of notifications is
\* still one.
C40_Witness ==
    /\ monLast = [op |-> "sweep", id |-> "A", read |-> "stuck", ok |-> FALSE]
    /\ "A" \in DOMAIN stateFile.active
    /\ stateFile.active["A"].status = "stuck"
    /\ stateFile.active["A"].stuckReason = "stale_no_progress"
    /\ notified["A"] = 1

====
